---- MODULE Spec2Model ----
(***************************************************************************)
(* Model of the resumable, checkpointed processing engine of the export    *)
(* control dataset pipeline: the StateManager checkpoint store             *)
(* (utils/progress.py), the retry wrappers (utils/retry.py), the OCR       *)
(* extractor with its shared semaphore (extractors/ocr_extractor.py) and   *)
(* the Step 2 / Step 3 run loops (pipeline/step2_tech_specs.py,            *)
(* pipeline/step3_permit_license.py).                                      *)
(*                                                                         *)
(* The module holds several specifications over one set of variables.      *)
(* Each specification drives one group of variables and leaves the other   *)
(* groups at their initial value.                                          *)
(***************************************************************************)
EXTENDS Integers, Sequences, FiniteSets, TLC

VARIABLES
    \* ---- StateManager (utils/progress.py) and its state file
    state,            \* StateManager._state, the in-memory checkpoint
    state_file,       \* <<>> when the state file is absent, else <<document>>
    last_files,       \* history: unit id -> file list of its last mark_files_processed
    saved_files,      \* history: last_files as of the last save of the state file
    ops,              \* number of store operations performed (bounded)
    \* ---- resolver inputs / output (StateManager.get_saf_numbers_with_new_files)
    current_mapping,  \* dict saf_number -> list of files, as an ordered list of items
    need_processing,  \* the list the resolver returned
    resolved,         \* whether the resolver has been called on current_mapping
    \* ---- one call through the retry / retry_async wrapper (utils/retry.py)
    max_attempts,     \* decorator arguments
    delay,
    backoff,
    attempt,          \* loop variable of  for attempt in range(max_attempts)
    current_delay,
    last_exception,   \* <<>> for None, else <<exception>>
    retry_pc,         \* "off", "call", "sleep", "returned", "raised"
    calls,            \* history: number of invocations of the wrapped function
    waits,            \* history: the sleeps performed, in order
    outcome,          \* what the wrapper returned or raised
    \* ---- a Step 2 / Step 3 runner (pipeline/step2_tech_specs.py,
    \*      pipeline/step3_permit_license.py) and the files it owns
    step,             \* 2 or 3: which runner the behaviour is about
    batch_size,       \* self._batch_size
    document_mapping, \* document_mapping.json: [specs, permit, license]
    chunk_files,      \* Step 2 chunk files: chunk number -> list of records
    partial_file,     \* Step 3 partial file: <<>> when absent, else <<records>>
    output_file,      \* the consolidated parquet: <<>> when absent, else <<records>>
    pc,               \* position of the run; "idle" when no process is running
    resume,           \* arguments of run()
    incremental,
    limit,            \* 0 stands for None
    processed,        \* local variable processed of run()
    saf_numbers,      \* local variable saf_numbers of run(): the work list
    idx,              \* loop variable i of  for i, saf_number in enumerate(...)
    results,          \* local variable results of run()
    df_new,           \* local variable df_new of run()
    loaded,           \* history: the run loaded an existing state file
    executed,         \* history: units whose extraction this run invoked
    prior_output,     \* history: output_file as the final write found it
    runs,             \* history: number of runs started so far (bounded)
    \* ---- the OCR extractor over the units of a Step 2 run
    \*      (extractors/ocr_extractor.py, pipeline/step2_tech_specs.py:119-131)
    max_concurrent,   \* OCRExtractor._max_concurrent
    loop_at_init,     \* the interpreter binds a semaphore to the event loop it
                      \* is created in (Python 3.9), not at the first wait (3.10+)
    n_units,          \* number of units of the run
    unit_no,          \* units started so far; the current unit while gathering
    exec_pc,          \* "next", "gather" or "finished"
    task_pc,          \* the file tasks of the current unit: index -> status
    sem_value,        \* asyncio.Semaphore._value of OCRExtractor._semaphore
    sem_loop,         \* the unit whose event loop the semaphore is bound to, 0: none
    max_in_flight,    \* history: the largest number of calls in flight so far
    most_files,       \* history: the largest file count of a unit so far
    least_files,      \* history: the smallest file count of a unit so far
    \* ---- the extraction of one file: OCRExtractor.process_file and
    \*      OCRClient.process_file (core/ocr_client.py); the submit stage
    \*      runs through the retry wrapper and uses its variables
    file_pc,          \* "off", "download", "submit", "poll", "returned"
    ocr_timeout,      \* OCRClient._timeout, in poll intervals
    elapsed,          \* time.time() - start_time in wait_for_result
    polls,            \* history: number of get_result calls
    fetch_attempts,   \* history: number of wait_for_result calls
    file_error,       \* history: <<>> or <<kind, stage>> of the exception caught
    file_return,      \* <<>> or <<text, error>>: what process_file returned
    \* ---- the extraction of one unit: OCRExtractor.process_saf_files and
    \*      the body of the run loop (step2_tech_specs.py:123-163); uses
    \*      state, state_file, results and chunk_files
    unit_pc,          \* "off", "gather", "returned", "marked", "flushed"
    unit_files,       \* files: the object paths get_files_for_saf returned
    unit_tasks,       \* task index -> <<>> while running, else its outcome
    completion,       \* history: the task indices in the order they completed
    unit_return,      \* <<>> or <<combined_text, processed, errors>>
    \* ---- a process writing the state file write by write (SpecSave); uses
    \*      state, state_file and ops
    save_pc,          \* "off", "running", "saving", "dead", "load_failed"
    \* ---- the classification of one row of the final dataset
    \*      (config/patterns.py, pipeline/step4_classification.py:92-98)
    permit_text,      \* the row's permit_text
    license_text,     \* the row's license_text
    license_need,     \* the row's license_need: "True", "False" or "None"
    consulted,        \* history: the pattern sets tested, <<source, set>>, in order
    class_pc          \* "off", "row" or "classified"

storeVars   == <<state, state_file, last_files, saved_files, ops>>
resolveVars == <<current_mapping, need_processing, resolved>>
retryVars   == <<max_attempts, delay, backoff, attempt, current_delay,
                 last_exception, retry_pc, calls, waits, outcome>>
diskVars    == <<chunk_files, partial_file, output_file>>
localVars   == <<resume, incremental, limit, processed, saf_numbers, idx, results,
                 df_new, loaded, executed, prior_output>>
runVars     == <<step, batch_size, document_mapping, diskVars, pc, localVars,
                 runs>>
execVars    == <<max_concurrent, loop_at_init, n_units, unit_no, exec_pc, task_pc, sem_value,
                 sem_loop, max_in_flight, most_files, least_files>>
fileVars    == <<file_pc, ocr_timeout, elapsed, polls, fetch_attempts, file_error,
                 file_return>>
unitVars    == <<unit_pc, unit_files, unit_tasks, completion, unit_return>>
classVars   == <<permit_text, license_text, license_need, consulted, class_pc>>
vars        == <<storeVars, resolveVars, retryVars, runVars, execVars, fileVars,
                 unitVars, save_pc, classVars>>

\* what the actions of one specification leave alone
notStore   == <<resolveVars, retryVars, runVars, execVars, fileVars, unitVars,
               save_pc, classVars>>
notResolve == <<storeVars, retryVars, runVars, execVars, fileVars, unitVars,
               save_pc, classVars>>
notRetry   == <<storeVars, resolveVars, runVars, execVars, fileVars, unitVars,
               save_pc, classVars>>
notRun     == <<last_files, saved_files, ops, resolveVars, retryVars, execVars,
               fileVars, unitVars, save_pc, classVars>>
notExec    == <<storeVars, resolveVars, retryVars, runVars, fileVars, unitVars,
               save_pc, classVars>>
notFile    == <<storeVars, resolveVars, runVars, execVars, unitVars,
               save_pc, classVars>>
notUnit    == <<last_files, saved_files, ops, resolveVars, retryVars, step,
               batch_size, document_mapping, partial_file, output_file, pc,
               resume, incremental, limit, processed, saf_numbers, idx, df_new,
               loaded, executed, prior_output, runs, execVars, fileVars, save_pc, classVars>>
notSave    == <<last_files, saved_files, resolveVars, retryVars, runVars, execVars,
               fileVars, unitVars, classVars>>
notClass   == <<storeVars, resolveVars, retryVars, runVars, execVars, fileVars,
               unitVars, save_pc>>

----------------------------------------------------------------------------
(* Bounds of the model and the small universes inputs are drawn from.      *)

MaxFiles == 2        \* longest file list of a unit in the resolver/store inputs
MaxOps   == 4        \* store operations per behaviour of SpecStore
MaxAttempts == 3     \* largest max_attempts the retry wrapper is run with
MaxBatch == 2        \* largest batch_size a runner is constructed with
MaxRuns == 3         \* runs started per behaviour of SpecRun
MaxConcurrent == 2   \* largest max_concurrent the extractor is built with
MaxUnitFiles == 3    \* most files of one unit in SpecExec
MaxExecUnits == 10   \* most units of one run in SpecExec
MaxTimeout == 3      \* largest OCR timeout, in poll intervals, in SpecFile

Units  == {"A", "B"}
Files  == {"f1", "f2"}
Errors == {"e1", "e2"}

Range(s) == {s[k] : k \in 1..Len(s)}

NoDup(s) == \A a, b \in 1..Len(s) : a # b => s[a] # s[b]

SeqsUpTo(S, n) == UNION {[1..k -> S] : k \in 0..n}

FileLists == SeqsUpTo(Files, MaxFiles)

\* listings as object storage returns them: no path twice
Listings == {fl \in FileLists : NoDup(fl)}

\* A Python dict keeps its items in insertion order and has unique keys: a
\* dict is an ordered list of <<key, value>> items with pairwise distinct keys.
Keys(d)      == {d[k][1] : k \in 1..Len(d)}
KeyList(d)   == [k \in 1..Len(d) |-> d[k][1]]
HasKey(d, x) == x \in Keys(d)
Get(d, x, default) ==
    IF HasKey(d, x) THEN d[CHOOSE k \in 1..Len(d) : d[k][1] = x][2] ELSE default

\* every dict with keys among the unit ids, in every insertion order, with
\* values from V
KeyOrders == {ks \in SeqsUpTo(Units, Cardinality(Units)) : NoDup(ks)}
DictsOver(V) ==
    UNION {{[k \in 1..Len(ks) |-> <<ks[k], vs[k]>>] : vs \in [1..Len(ks) -> V]} :
           ks \in KeyOrders}

\* a finite map (JSON object) as a function on the set of its keys
EmptyMap == [x \in {} |-> <<>>]
Put(m, k, v) == [x \in DOMAIN m \cup {k} |-> IF x = k THEN v ELSE m[x]]
MapsOver(V) == UNION {[D -> V] : D \in SUBSET Units}

----------------------------------------------------------------------------
(* StateManager: the checkpoint store.  Timestamps (started_at,            *)
(* updated_at) carry no behaviour and are left out of the document.        *)

_create_initial_state ==
    [ total_items           |-> 0,
      processed_items       |-> 0,
      failed_items          |-> 0,
      current_batch         |-> 0,
      processed_saf_numbers |-> <<>>,
      failed_saf_numbers    |-> EmptyMap,
      processed_files       |-> EmptyMap ]

\* The state file holds a JSON document: an object, written member by
\* member and closed by its last brace.  A member is <<key, value>>; an
\* object value is a list of members, a list value a list, an integer an
\* integer.  The file content is [members, closed].
StateKeys == <<"total_items", "processed_items", "failed_items", "current_batch",
               "processed_saf_numbers", "failed_saf_numbers", "processed_files">>
ObjectKeys == {"failed_saf_numbers", "processed_files"}

\* the unit ids in lexicographic order
UnitOrder == <<"A", "B", "C", "D">>

\* sorted(ids)
sorted(S) == SelectSeq(UnitOrder, LAMBDA u : u \in S)

\* a dict as a JSON object: one member per key (the maps of the model carry
\* no insertion order; the members are written in the order of the keys)
json_object(m) ==
    LET ks == sorted(DOMAIN m)
    IN  [k \in 1..Len(ks) |-> <<ks[k], m[ks[k]]>>]

\* a JSON object as a dict: a key that occurs twice keeps its last value
json_dict(members) ==
    [x \in Keys(members) |->
        members[CHOOSE k \in 1..Len(members) :
                    /\ members[k][1] = x
                    /\ \A l \in (k + 1)..Len(members) : members[l][1] # x][2]]

\* the members json.dump writes for the state, in the order of its keys
json_members(doc) ==
    [k \in 1..Len(StateKeys) |->
        <<StateKeys[k],
          IF StateKeys[k] \in ObjectKeys THEN json_object(doc[StateKeys[k]])
          ELSE doc[StateKeys[k]]>>]

\* json.dump(self._state, f): the whole document
json_dump(doc) == <<[members |-> json_members(doc), closed |-> TRUE]>>

\* open(self._state_file, "w"): the file exists and is empty
opened_for_writing == <<[members |-> <<>>, closed |-> FALSE]>>

\* the first n members of the document have reached the file
written(doc, n) == <<[members |-> SubSeq(json_members(doc), 1, n), closed |-> FALSE]>>

\* json.load succeeds on a complete document only
parseable(file) == file[1].closed

\* json.load(f)
json_load(file) ==
    LET top == json_dict(file[1].members)
    IN  [key \in DOMAIN top |->
            IF key \in ObjectKeys THEN json_dict(top[key]) ELSE top[key]]

exists(file) == file # <<>>

get_processed(s) == Range(s.processed_saf_numbers)

get_failed(s) == s.failed_saf_numbers

\* an append without the membership test
mark_processed_append(s, saf_number) ==
    LET appended == Append(s.processed_saf_numbers, saf_number)
    IN  [s EXCEPT !.processed_saf_numbers = appended,
                  !.processed_items = Len(appended)]

\* a mark_processed that takes the unit out of the failed map
mark_processed_clears_failed(s, saf_number) ==
    LET appended == IF saf_number \in Range(s.processed_saf_numbers)
                    THEN s.processed_saf_numbers
                    ELSE Append(s.processed_saf_numbers, saf_number)
        failed   == [x \in DOMAIN s.failed_saf_numbers \ {saf_number} |->
                        s.failed_saf_numbers[x]]
    IN  [s EXCEPT !.processed_saf_numbers = appended,
                  !.processed_items = Len(appended),
                  !.failed_saf_numbers = failed,
                  !.failed_items = Cardinality(DOMAIN failed)]

mark_processed(s, saf_number) ==
    IF saf_number \notin Range(s.processed_saf_numbers)
    THEN LET appended == Append(s.processed_saf_numbers, saf_number)
         IN  [s EXCEPT !.processed_saf_numbers = appended,
                       !.processed_items = Len(appended)]
    ELSE s

\* a mark_failed that takes the unit out of the processed list
mark_failed_unprocess(s, saf_number, error) ==
    LET failed == Put(s.failed_saf_numbers, saf_number, error)
        kept   == SelectSeq(s.processed_saf_numbers, LAMBDA u : u # saf_number)
    IN  [s EXCEPT !.failed_saf_numbers = failed,
                  !.failed_items = Cardinality(DOMAIN failed),
                  !.processed_saf_numbers = kept,
                  !.processed_items = Len(kept)]

mark_failed(s, saf_number, error) ==
    LET failed == Put(s.failed_saf_numbers, saf_number, error)
    IN  [s EXCEPT !.failed_saf_numbers = failed,
                  !.failed_items = Cardinality(DOMAIN failed)]

mark_files_processed_union(s, saf_number, files) ==
    [s EXCEPT !.processed_files =
        Put(s.processed_files, saf_number,
            IF saf_number \in DOMAIN s.processed_files
            THEN s.processed_files[saf_number] \o files
            ELSE files)]

\* a mark_files_processed that keeps the snapshot of this unit only
mark_files_processed_only(s, saf_number, files) ==
    [s EXCEPT !.processed_files = Put(EmptyMap, saf_number, files)]

mark_files_processed(s, saf_number, files) ==
    [s EXCEPT !.processed_files = Put(s.processed_files, saf_number, files)]

get_all_processed_files(s) == s.processed_files

set_total(s, total) == [s EXCEPT !.total_items = total]

update_batch(s, batch_num) == [s EXCEPT !.current_batch = batch_num]

\* a load that starts afresh
load_fresh(file) == _create_initial_state

\* load(): the parsed document when the file exists, else a fresh state
load(file) == IF exists(file) THEN json_load(file) ELSE _create_initial_state

\* save(): the file is overwritten with the dumped state
save(s) == json_dump(s)

----------------------------------------------------------------------------
(* The resolver: StateManager.get_saf_numbers_with_new_files.              *)

\* the for loop over current_mapping.items(), from item k on
RECURSIVE ResolveLoop(_, _, _, _)
ResolveLoop(processed_files, mapping, k, acc) ==
    IF k > Len(mapping) THEN acc
    ELSE LET saf_number == mapping[k][1]
             files      == mapping[k][2]
         IN  IF saf_number \notin DOMAIN processed_files
             THEN ResolveLoop(processed_files, mapping, k + 1,
                              Append(acc, saf_number))
             ELSE LET old_files == Range(processed_files[saf_number])
                      new_files == Range(files)
                  IN  IF new_files \ old_files # {}
                      THEN ResolveLoop(processed_files, mapping, k + 1,
                                       Append(acc, saf_number))
                      ELSE ResolveLoop(processed_files, mapping, k + 1, acc)

\* a resolver that reports any difference of the two file sets
get_saf_numbers_changed(s, mapping) ==
    LET pf == get_all_processed_files(s)
    IN  SelectSeq(KeyList(mapping),
                  LAMBDA u : \/ u \notin DOMAIN pf
                             \/ Range(Get(mapping, u, <<>>)) # Range(pf[u]))

get_saf_numbers_with_new_files(s, mapping) ==
    ResolveLoop(get_all_processed_files(s), mapping, 1, <<>>)

\* a resolver that walks the keys of the mapping as a set, in the order
\* in which the sets of the process iterate
resolve_by_set_order(s, mapping, order) ==
    SelectSeq(order, LAMBDA u : u \in Range(get_saf_numbers_with_new_files(s, mapping)))

\* one call of the resolver in a process whose sets iterate in the given
\* order: the loop follows current_mapping.items(), a dict, and the sets
\* it builds are only tested for emptiness
resolve(s, mapping, order) == get_saf_numbers_with_new_files(s, mapping)

\* a text field that holds no string: None, or the NaN of a row without
\* a record of that step
NoText == [is_str |-> FALSE, words |-> <<>>]

\* a string, as the list of its words
Text(words) == [is_str |-> TRUE, words |-> words]

ClassIdle ==
    /\ permit_text = NoText
    /\ license_text = NoText
    /\ license_need = "None"
    /\ consulted = <<>>
    /\ class_pc = "off"

----------------------------------------------------------------------------
(* SpecResolve: the resolver applied to every bounded mapping and          *)
(* snapshot.                                                               *)

StoreIdle ==
    /\ state = _create_initial_state
    /\ state_file = <<>>
    /\ last_files = EmptyMap
    /\ saved_files = EmptyMap
    /\ ops = 0

ResolveIdle ==
    /\ current_mapping = <<>>
    /\ need_processing = <<>>
    /\ resolved = FALSE

RetryIdle ==
    /\ max_attempts = 0
    /\ delay = 0
    /\ backoff = 0
    /\ attempt = 0
    /\ current_delay = 0
    /\ last_exception = <<>>
    /\ retry_pc = "off"
    /\ calls = 0
    /\ waits = <<>>
    /\ outcome = <<>>

LocalsIdle ==
    /\ resume = FALSE
    /\ incremental = FALSE
    /\ limit = 0
    /\ processed = {}
    /\ saf_numbers = <<>>
    /\ idx = 0
    /\ results = <<>>
    /\ df_new = <<>>
    /\ loaded = FALSE
    /\ executed = {}
    /\ prior_output = <<>>

RunIdle ==
    /\ step = 0
    /\ batch_size = 0
    /\ document_mapping = <<>>
    /\ chunk_files = EmptyMap
    /\ partial_file = <<>>
    /\ output_file = <<>>
    /\ pc = "idle"
    /\ LocalsIdle
    /\ runs = 0

ExecIdle ==
    /\ max_concurrent = 0
    /\ loop_at_init = FALSE
    /\ n_units = 0
    /\ unit_no = 0
    /\ exec_pc = "off"
    /\ task_pc = <<>>
    /\ sem_value = 0
    /\ sem_loop = 0
    /\ max_in_flight = 0
    /\ most_files = 0
    /\ least_files = 0

FileIdle ==
    /\ file_pc = "off"
    /\ ocr_timeout = 0
    /\ elapsed = 0
    /\ polls = 0
    /\ fetch_attempts = 0
    /\ file_error = <<>>
    /\ file_return = <<>>

UnitIdle ==
    /\ unit_pc = "off"
    /\ unit_files = <<>>
    /\ unit_tasks = <<>>
    /\ completion = <<>>
    /\ unit_return = <<>>

InitResolve ==
    /\ RetryIdle
    /\ RunIdle
    /\ ExecIdle
    /\ FileIdle
    /\ UnitIdle
    /\ save_pc = "off"
    /\ ClassIdle
    /\ state \in {[_create_initial_state EXCEPT !.processed_files = pf] :
                     pf \in MapsOver(FileLists)}
    /\ state_file = <<>>
    /\ last_files = EmptyMap
    /\ saved_files = EmptyMap
    /\ ops = 0
    /\ current_mapping \in DictsOver(FileLists)
    /\ need_processing = <<>>
    /\ resolved = FALSE

\* need = state_manager.get_saf_numbers_with_new_files(mapping)
Resolve ==
    /\ ~resolved
    /\ \E order \in KeyOrders :
         /\ Range(order) = Keys(current_mapping)
         /\ need_processing' = resolve(state, current_mapping, order)
    /\ resolved' = TRUE
    /\ UNCHANGED <<current_mapping, notResolve>>

\* the resolver is called again on the same mapping and state, by the same
\* process or by another one; ops counts these calls
ResolveAgain ==
    /\ resolved
    /\ ops < MaxOps
    /\ ops' = ops + 1
    /\ \E order \in KeyOrders :
         /\ Range(order) = Keys(current_mapping)
         /\ need_processing' = resolve(state, current_mapping, order)
    /\ UNCHANGED <<current_mapping, resolved, state, state_file, last_files,
                   saved_files, retryVars, runVars, execVars, fileVars, unitVars,
                   save_pc, classVars>>

\* the document mapping is refreshed between calls (main.py, refresh): the
\* listing of one unit gains a file or loses its last file
RefreshMapping ==
    /\ resolved
    /\ \E k \in 1..Len(current_mapping) :
         LET files == current_mapping[k][2]
         IN  \E new \in {Append(files, f) : f \in Files}
                       \cup {SubSeq(files, 1, Len(files) - 1)} :
                /\ new # files
                /\ Len(new) <= MaxFiles
                /\ current_mapping' =
                     [current_mapping EXCEPT ![k] = <<current_mapping[k][1], new>>]
    /\ need_processing' = <<>>
    /\ resolved' = FALSE
    /\ UNCHANGED notResolve

NextResolve ==
    \/ Resolve
    \/ ResolveAgain
    \/ RefreshMapping

SpecResolve == InitResolve /\ [][NextResolve]_vars

\* C3: the resolver returns an id iff it is a key of the mapping and either has
\* no recorded snapshot or has a file ref of the mapping that is not in its
\* snapshot; it returns no other id and no id twice.
C3_ResolverIff ==
    resolved =>
        /\ \A u \in Units :
              u \in Range(need_processing) <=>
                /\ HasKey(current_mapping, u)
                /\ \/ u \notin DOMAIN state.processed_files
                   \/ \E f \in Range(Get(current_mapping, u, <<>>)) :
                         f \notin Range(state.processed_files[u])
        /\ Range(need_processing) \subseteq Units
        /\ NoDup(need_processing)

\* a resolved state in which one id is returned for a new file, one id with a
\* snapshot covering its files is not returned
C3_Witness ==
    /\ resolved
    /\ need_processing = <<"B">>
    /\ Keys(current_mapping) = {"A", "B"}
    /\ DOMAIN state.processed_files = {"A", "B"}
    /\ Range(Get(current_mapping, "A", <<>>)) # Range(state.processed_files["A"])
----------------------------------------------------------------------------
(* SpecStore: any sequence of at most MaxOps StateManager operations.      *)

InitStore ==
    /\ StoreIdle /\ ResolveIdle /\ RetryIdle /\ RunIdle /\ ExecIdle /\ FileIdle
    /\ UnitIdle
    /\ save_pc = "off"
    /\ ClassIdle

\* every store operation counts against MaxOps and touches the store only
StoreStep ==
    /\ ops < MaxOps
    /\ ops' = ops + 1
    /\ UNCHANGED notStore

Load ==
    /\ StoreStep
    /\ state' = load(state_file)
    /\ last_files' = saved_files
    /\ UNCHANGED <<state_file, saved_files>>

Save ==
    /\ StoreStep
    /\ state_file' = save(state)
    /\ saved_files' = last_files
    /\ UNCHANGED <<state, last_files>>

MarkProcessed ==
    \E u \in Units :
        /\ StoreStep
        /\ state' = mark_processed(state, u)
        /\ UNCHANGED <<state_file, last_files, saved_files>>

MarkFailed ==
    \E u \in Units, e \in Errors :
        /\ StoreStep
        /\ state' = mark_failed(state, u, e)
        /\ UNCHANGED <<state_file, last_files, saved_files>>

MarkFilesProcessed ==
    \E u \in Units, files \in Listings :
        /\ StoreStep
        /\ state' = mark_files_processed(state, u, files)
        /\ last_files' = Put(last_files, u, files)
        /\ UNCHANGED <<state_file, saved_files>>

SetTotal ==
    \E n \in 0..Cardinality(Units) :
        /\ StoreStep
        /\ state' = set_total(state, n)
        /\ UNCHANGED <<state_file, last_files, saved_files>>

UpdateBatch ==
    \E n \in 1..Cardinality(Units) :
        /\ StoreStep
        /\ state' = update_batch(state, n)
        /\ UNCHANGED <<state_file, last_files, saved_files>>

\* reset(): a fresh initial state, saved at once
Reset ==
    /\ StoreStep
    /\ state' = _create_initial_state
    /\ state_file' = save(_create_initial_state)
    /\ last_files' = EmptyMap
    /\ saved_files' = EmptyMap

\* delete(): the state file is removed if it exists; the memory stays
Delete ==
    /\ StoreStep
    /\ state_file' = <<>>
    /\ saved_files' = EmptyMap
    /\ UNCHANGED <<state, last_files>>

NextStore ==
    \/ Load
    \/ Save
    \/ MarkProcessed
    \/ MarkFailed
    \/ MarkFilesProcessed
    \/ SetTotal
    \/ UpdateBatch
    \/ Reset
    \/ Delete

SpecStore == InitStore /\ [][NextStore]_vars

\* the mappings C4 is evaluated on: unit u with file list files, alone or after
\* another unit
MappingsWith(u, files) ==
    {<<<<u, files>>>>} \cup {<<<<v, <<>>>>, <<u, files>>>> : v \in Units \ {u}}

\* C4: once a unit has been recorded with file list F, the resolver selects it
\* for a later mapping iff that mapping lists a file ref for it that is not in
\* F: never for the same list or a list with files removed.
C4_AdditionOnly ==
    \A u \in DOMAIN last_files :
        \A files \in FileLists :
            \A m \in MappingsWith(u, files) :
                u \in Range(get_saf_numbers_with_new_files(state, m))
                    <=> ~(Range(files) \subseteq Range(last_files[u]))

\* unit A was recorded with [f2] and later again with [f1], and is processed
C4_Witness ==
    /\ "A" \in DOMAIN last_files
    /\ last_files["A"] = <<"f1">>
    /\ state.processed_files["A"] = <<"f1">>
    /\ "A" \in Range(state.processed_saf_numbers)
    /\ ops = MaxOps

\* the processed set of the persisted checkpoint; empty when there is none
PersistedProcessed(file) ==
    IF exists(file) THEN get_processed(json_load(file)) ELSE {}

\* C17: no store operation other than an explicit reset (reset(), or
\* delete() of the state file) removes a unit id from the processed set:
\* the persisted set never loses an id, the in-memory set never loses an id
\* by mark_processed, mark_failed, mark_files_processed, set_total,
\* update_batch or save, and load keeps every persisted id, hence every id
\* when it loads the state that was saved.
C17_ProcessedMonotonic ==
    [][\/ Reset
       \/ Delete
       \/ /\ PersistedProcessed(state_file) \subseteq PersistedProcessed(state_file')
          /\ IF Load
             THEN /\ PersistedProcessed(state_file) \subseteq get_processed(state')
                  /\ state_file = save(state) =>
                         get_processed(state) \subseteq get_processed(state')
             ELSE get_processed(state) \subseteq get_processed(state')]_vars

\* unit A is processed in memory and in the persisted checkpoint and was
\* marked failed afterwards
C17_Witness ==
    /\ "A" \in get_processed(state)
    /\ "A" \in PersistedProcessed(state_file)
    /\ "A" \in DOMAIN get_failed(state)
    /\ "A" \in DOMAIN get_failed(load(state_file))
    /\ state.current_batch = 1

\* C18: mark_processed is idempotent: marking a unit again leaves the state
\* that marking it once left, and the processed list holds no id twice.
C18_MarkProcessedIdempotent ==
    /\ NoDup(state.processed_saf_numbers)
    /\ state.processed_items = Len(state.processed_saf_numbers)
    /\ \A u \in Units :
          LET once == mark_processed(state, u)
          IN  /\ mark_processed(once, u) = once
              /\ NoDup(once.processed_saf_numbers)
              /\ u \in get_processed(state) => once = state

\* both units are processed, B first: marking either again is the
\* repeated call
C18_Witness ==
    /\ state.processed_saf_numbers = <<"B", "A">>
    /\ state.processed_items = 2

\* C19: load() returns exactly the state save() last wrote when the state
\* file exists (save followed by load is the identity on every field), a
\* fresh initial state when it is absent, and never changes the file.
C19_LoadReturnsSaved ==
    /\ [](load(save(state)) = state)
    /\ [][Save => /\ exists(state_file')
                  /\ json_load(state_file') = state
                  /\ state' = state]_vars
    /\ [][Load => /\ state_file' = state_file
                  /\ state' = IF exists(state_file) THEN json_load(state_file)
                               ELSE _create_initial_state]_vars

\* a state with a processed unit, a failed unit and a file snapshot that is
\* the one the file holds, the file lists of the last save being current
C19_Witness ==
    /\ exists(state_file)
    /\ load(state_file) = state
    /\ state.processed_saf_numbers = <<"A">>
    /\ DOMAIN state.failed_saf_numbers = {"B"}
    /\ DOMAIN state.processed_files = {"A"}
    /\ ops = MaxOps

\* C32: mark_processed leaves the failed map (and its count) as it is, and
\* mark_failed leaves the processed list (and its count) and the file
\* snapshots as they are; so a unit that is in the failed map and is then
\* marked processed is in both, with the error it had.
C32_MarksAreDisjoint ==
    /\ [](\A u \in Units :
            LET marked == mark_processed(state, u)
            IN  /\ get_failed(marked) = get_failed(state)
                /\ marked.failed_items = state.failed_items
                /\ get_all_processed_files(marked) = get_all_processed_files(state)
                /\ u \in get_processed(marked))
    /\ [](\A u \in Units, e \in Errors :
            LET marked == mark_failed(state, u, e)
            IN  /\ marked.processed_saf_numbers = state.processed_saf_numbers
                /\ marked.processed_items = state.processed_items
                /\ get_all_processed_files(marked) = get_all_processed_files(state)
                /\ get_failed(marked)[u] = e)
    /\ [][MarkProcessed => get_failed(state') = get_failed(state)]_vars
    /\ [][MarkFailed => /\ get_processed(state') = get_processed(state)
                        /\ get_all_processed_files(state') =
                               get_all_processed_files(state)]_vars

\* unit A was marked failed, the state was saved and loaded by a later run,
\* and A was marked processed there: it is in the failed map with its error
\* and in the processed set
C32_Witness ==
    /\ ops = MaxOps
    /\ exists(state_file)
    /\ "A" \in DOMAIN get_failed(load(state_file))
    /\ "A" \notin PersistedProcessed(state_file)
    /\ "A" \in get_processed(state)
    /\ "A" \in DOMAIN get_failed(state)
    /\ get_failed(state)["A"] = "e2"

\* C33: mark_files_processed(id, files) makes the given list the snapshot of
\* that unit, whatever the snapshot was, and changes no other unit's
\* snapshot; so when a file of the earlier snapshot is not in the new list
\* and a later mapping lists it again, the resolver selects the unit.
C33_SnapshotReplaced ==
    \A u \in Units, files \in Listings :
        LET recorded == mark_files_processed(state, u, files)
            before   == get_all_processed_files(state)
            after    == get_all_processed_files(recorded)
        IN  /\ DOMAIN after = DOMAIN before \cup {u}
            /\ after[u] = files
            /\ \A v \in DOMAIN before \ {u} : after[v] = before[v]
            /\ u \in DOMAIN before =>
                  \A f \in Range(before[u]) \ Range(files) :
                      \A m \in MappingsWith(u, Append(files, f)) :
                          u \in Range(get_saf_numbers_with_new_files(recorded, m))

\* unit A was recorded with [f1, f2] and saved, then recorded again with
\* [f2] only; B keeps its snapshot, and a mapping that lists f1 for A again
\* selects A
C33_Witness ==
    /\ "A" \in DOMAIN saved_files
    /\ saved_files["A"] = <<"f1", "f2">>
    /\ DOMAIN state.processed_files = {"A", "B"}
    /\ state.processed_files["A"] = <<"f2">>
    /\ get_saf_numbers_with_new_files(state, <<<<"A", <<"f1", "f2">>>>>>) = <<"A">>
----------------------------------------------------------------------------
(* SpecRetry: one call through the wrapper built by retry / retry_async.   *)
(* The two wrappers differ only in sleeping with time.sleep or             *)
(* asyncio.sleep.  The wrapped function is the environment: every          *)
(* invocation returns, raises an exception of the exceptions tuple, or     *)
(* raises another exception.                                               *)

Delays   == {1, 5}
Backoffs == {1, 2, 3}

RECURSIVE Pow(_, _)
Pow(b, n) == IF n = 0 THEN 1 ELSE b * Pow(b, n - 1)

\* the exceptions the wrapped function raises: of a type in the wrapper's
\* exceptions tuple ("retryable") or of another type ("other")
ExceptionKinds == {"retryable", "other"}

\* except Exception as e
caught_all(kind) == TRUE

\* except exceptions as e
caught(kind) == kind = "retryable"

\* a test that takes the attempt before the last for the last
attempts_remain_short(a, n) == a < n - 2

\* if attempt < max_attempts - 1
attempts_remain(a, n) == a < n - 1

\* current_delay += backoff
backoff_added(d, b) == d + b

\* current_delay *= backoff
backoff_step(d, b) == d * b

InitRetry ==
    /\ StoreIdle
    /\ ResolveIdle
    /\ RunIdle
    /\ ExecIdle
    /\ FileIdle
    /\ UnitIdle
    /\ save_pc = "off"
    /\ ClassIdle
    /\ max_attempts \in 1..MaxAttempts
    /\ delay \in Delays
    /\ backoff \in Backoffs
    /\ attempt = 0
    /\ current_delay = delay
    /\ last_exception = <<>>
    /\ retry_pc = "call"
    /\ calls = 0
    /\ waits = <<>>
    /\ outcome = <<>>

\* return func(*args, **kwargs): the invocation returns a value
CallReturns ==
    /\ UNCHANGED notRetry
    /\ retry_pc = "call"
    /\ calls' = calls + 1
    /\ outcome' = <<"value", calls + 1>>
    /\ retry_pc' = "returned"
    /\ UNCHANGED <<max_attempts, delay, backoff, attempt, current_delay,
                   last_exception, waits>>

\* except exceptions as e: remember it; sleep unless this was the last
\* attempt, after which the loop ends and last_exception is raised
CallRaisesRetryable ==
    /\ UNCHANGED notRetry
    /\ retry_pc = "call"
    /\ calls' = calls + 1
    /\ \E kind \in ExceptionKinds :
         /\ caught(kind)
         /\ last_exception' = <<<<kind, calls + 1>>>>
         /\ IF attempts_remain(attempt, max_attempts)
            THEN /\ retry_pc' = "sleep"
                 /\ UNCHANGED <<attempt, outcome>>
            ELSE /\ attempt' = attempt + 1
                 /\ retry_pc' = "raised"
                 /\ outcome' = <<kind, calls + 1>>
    /\ UNCHANGED <<max_attempts, delay, backoff, current_delay, waits>>

\* an exception outside the exceptions tuple is not caught by the wrapper
CallRaisesOther ==
    /\ UNCHANGED notRetry
    /\ retry_pc = "call"
    /\ calls' = calls + 1
    /\ \E kind \in ExceptionKinds :
         /\ ~caught(kind)
         /\ outcome' = <<kind, calls + 1>>
    /\ retry_pc' = "raised"
    /\ UNCHANGED <<max_attempts, delay, backoff, attempt, current_delay,
                   last_exception, waits>>

\* sleep(current_delay); current_delay *= backoff; next loop iteration
Sleep ==
    /\ UNCHANGED notRetry
    /\ retry_pc = "sleep"
    /\ waits' = Append(waits, current_delay)
    /\ current_delay' = backoff_step(current_delay, backoff)
    /\ attempt' = attempt + 1
    /\ retry_pc' = "call"
    /\ UNCHANGED <<max_attempts, delay, backoff, last_exception, calls, outcome>>

NextRetry ==
    \/ CallReturns
    \/ CallRaisesRetryable
    \/ CallRaisesOther
    \/ Sleep

SpecRetry == InitRetry /\ [][NextRetry]_vars

\* C10: a call that fails k < N times with a retryable exception and then
\* succeeds is invoked exactly k+1 times, the waits between the attempts are
\* D, D*B, ..., D*B^(k-1) in that order, and the value of the successful
\* invocation is returned.
C10_RetryThenSuccess ==
    retry_pc = "returned" =>
        LET k == calls - 1
        IN  /\ k < max_attempts
            /\ k = attempt
            /\ waits = [j \in 1..k |-> delay * Pow(backoff, j - 1)]
            /\ outcome = <<"value", k + 1>>

\* N = 3, D = 1, B = 2, two retryable failures, then success: three
\* invocations, waits 1 then 2
C10_Witness ==
    /\ retry_pc = "returned"
    /\ max_attempts = 3 /\ delay = 1 /\ backoff = 2
    /\ calls = 3
    /\ waits = <<1, 2>>
    /\ last_exception = <<<<"retryable", 2>>>>

\* C35: a wrapped call that raises a retryable exception at every attempt
\* is invoked exactly N times with exactly N-1 waits, none after the last
\* attempt, and the wrapper raises the exception of the last attempt.
C35_ExhaustedRetries ==
    (retry_pc = "raised" /\ caught(outcome[1])) =>
        /\ calls = max_attempts
        /\ Len(waits) = max_attempts - 1
        /\ attempt = max_attempts
        /\ outcome = <<"retryable", max_attempts>>
        /\ last_exception = <<outcome>>

\* N = 3, D = 5, B = 2: three invocations, waits 5 then 10, the third
\* exception raised
C35_Witness ==
    /\ retry_pc = "raised"
    /\ max_attempts = 3 /\ delay = 5 /\ backoff = 2
    /\ calls = 3
    /\ waits = <<5, 10>>
    /\ outcome = <<"retryable", 3>>
----------------------------------------------------------------------------
(* The Step 2 and Step 3 runners.  A result record is                      *)
(* [saf_number, content]: content stands for the text columns of the       *)
(* record and is the list of files the text was extracted from (the        *)
(* storage listing is taken to be the one the document mapping recorded).  *)

\* s[:n]
Take(s, n) == SubSeq(s, 1, IF n < Len(s) THEN n ELSE Len(s))

Ids(records) == {records[k].saf_number : k \in 1..Len(records)}

\* the document mappings a behaviour moves between: unit A has one file or
\* two, unit B has one; Step 3 also has a license document for unit B
GroupMappings ==
    {<<<<"A", fa>>, <<"B", <<"f1">>>>>> : fa \in {<<"f1">>, <<"f1", "f2">>}}

DocMappings(st) ==
    IF st = 2
    THEN {[specs |-> m, permit |-> <<>>, license |-> <<>>] : m \in GroupMappings}
    ELSE {[specs |-> <<>>, permit |-> m, license |-> <<<<"B", <<"g1">>>>>>] :
             m \in GroupMappings}

\* saf_numbers before the limit: list(specs_mapping.keys()) in Step 2,
\* sorted(permit keys | license keys) in Step 3
all_saf_numbers(st, mapping) ==
    IF st = 2 THEN KeyList(mapping.specs)
    ELSE sorted(Keys(mapping.permit) \cup Keys(mapping.license))

\* if limit: saf_numbers = saf_numbers[:limit]
limited(list, lim) == IF lim # 0 THEN Take(list, lim) ELSE list

\* the first file of the unit's list only
files_of_first(st, mapping, u) ==
    Take(IF st = 2 THEN Get(mapping.specs, u, <<>>)
         ELSE Get(mapping.permit, u, <<>>) \o Get(mapping.license, u, <<>>), 1)

\* the file list of a unit: specs_mapping.get(saf, []) in Step 2,
\* permit_mapping.get(saf, []) + license_mapping.get(saf, []) in Step 3
files_of(st, mapping, u) ==
    IF st = 2 THEN Get(mapping.specs, u, <<>>)
    ELSE Get(mapping.permit, u, <<>>) \o Get(mapping.license, u, <<>>)

\* the mapping handed to the resolver: specs_mapping in Step 2; in Step 3
\* combined_mapping, filled in the iteration order of the set all_saf_numbers
resolver_mapping(st, mapping, order) ==
    IF st = 2 THEN mapping.specs
    ELSE [k \in 1..Len(order) |-> <<order[k], files_of(st, mapping, order[k])>>]

\* [s for s in saf_numbers_to_process if s in saf_numbers]
within(to_process, list) == SelectSeq(to_process, LAMBDA u : u \in Range(list))

\* a load that is tried only on a document that parses
should_load_parseable(r, inc, file) == (r \/ inc) /\ exists(file) /\ parseable(file)

\* if (resume or incremental) and self._state_manager.exists(): load()
should_load(r, inc, file) == (r \/ inc) /\ exists(file)

\* if saf_number in processed or saf_number in failed: continue
should_skip_failed(u, done, s) == u \in done \/ u \in DOMAIN get_failed(s)

\* if saf_number in processed: continue
should_skip(u, done, s) == u \in done

\* the lowest chunk number no chunk file has
RECURSIVE FirstFree(_, _)
FirstFree(chunks, n) == IF n \in DOMAIN chunks THEN FirstFree(chunks, n + 1) ELSE n

\* a flush that always writes chunk 0
save_chunk_at_zero(chunks, batch) ==
    IF batch = <<>> THEN chunks ELSE Put(chunks, 0, batch)

\* Step 2 _save_partial_results: nothing for an empty batch, else a new chunk
save_chunk(chunks, batch) ==
    IF batch = <<>> THEN chunks ELSE Put(chunks, FirstFree(chunks, 0), batch)

\* Step 2 _load_all_partial_results: the chunks concatenated in file order
RECURSIVE ConcatChunks(_, _)
ConcatChunks(chunks, todo) ==
    IF todo = {} THEN <<>>
    ELSE LET n == CHOOSE m \in todo : \A o \in todo : m <= o
         IN  chunks[n] \o ConcatChunks(chunks, todo \ {n})

load_all_chunks(chunks) == ConcatChunks(chunks, DOMAIN chunks)

\* Step 3 _save_partial_results / _load_partial_results
save_partial(file, batch) == IF batch # <<>> THEN <<batch>> ELSE file
load_partial(file) == IF exists(file) THEN file[1] ELSE <<>>

\* the final dataset: in incremental mode with an existing output and new
\* records, the existing records of other units followed by the new records;
\* otherwise the new records alone
merge_output(inc, file, new) ==
    IF inc /\ exists(file) /\ new # <<>>
    THEN SelectSeq(file[1], LAMBDA r : r.saf_number \notin Ids(new)) \o new
    ELSE new
----------------------------------------------------------------------------
(* SpecRun: runs of one runner, in any mode, one after the other, with     *)
(* crashes (the process dies; files stay as they are) and refreshes of  *)
(* the document mapping between runs.  Every write to a file is a step of  *)
(* its own, so a crash can fall between any two writes.                    *)

Limits    == {0, 1}
RunErrors == {"e1"}

InitRun ==
    /\ StoreIdle
    /\ ResolveIdle
    /\ RetryIdle
    /\ ExecIdle
    /\ FileIdle
    /\ UnitIdle
    /\ save_pc = "off"
    /\ ClassIdle
    /\ step \in {2, 3}
    /\ batch_size \in 1..MaxBatch
    /\ document_mapping \in DocMappings(step)
    /\ chunk_files = EmptyMap
    /\ partial_file = <<>>
    /\ output_file = <<>>
    /\ pc = "idle"
    /\ LocalsIdle
    /\ runs = 0

\* what no step of a run changes
fixedRun == <<step, batch_size, document_mapping, runs, notRun>>

\* the locals of a process that is not running
ClearLocals ==
    /\ resume' = FALSE
    /\ incremental' = FALSE
    /\ limit' = 0
    /\ processed' = {}
    /\ saf_numbers' = <<>>
    /\ idx' = 0
    /\ results' = <<>>
    /\ df_new' = <<>>
    /\ loaded' = FALSE
    /\ executed' = {}
    /\ prior_output' = <<>>
    /\ state' = _create_initial_state

\* main.py refresh-mapping: document_mapping.json is rewritten between runs
RefreshDocuments ==
    /\ pc = "idle"
    /\ document_mapping' \in DocMappings(step) \ {document_mapping}
    /\ UNCHANGED <<state, state_file, step, batch_size, diskVars, pc, localVars,
                   runs, notRun>>

\* run() up to the loop: the work list, load or reset of the state, the
\* resolver in incremental mode, set_total; Step 3 reloads the partial
\* results when resuming
StartRun ==
    /\ pc = "idle"
    /\ runs < MaxRuns
    /\ runs' = runs + 1
    /\ \E r \in BOOLEAN, inc \in BOOLEAN, lim \in Limits,
          order \in KeyOrders \cup {all_saf_numbers(step, document_mapping)} :
         LET all     == all_saf_numbers(step, document_mapping)
             saf0    == limited(all, lim)
             load_it == should_load(r, inc, state_file)
             st1     == IF load_it THEN load(state_file) ELSE _create_initial_state
             to_process ==
                 within(get_saf_numbers_with_new_files(
                            st1, resolver_mapping(step, document_mapping, order)),
                        saf0)
             work    == IF inc THEN to_process ELSE saf0
         IN  /\ Range(order) = Range(all)
             /\ step = 2 => order = all
             /\ load_it => parseable(state_file)
             /\ resume' = r
             /\ incremental' = inc
             /\ limit' = lim
             /\ loaded' = load_it
             /\ state_file' = IF load_it THEN state_file
                              ELSE save(_create_initial_state)
             /\ processed' = get_processed(st1)
             /\ saf_numbers' = work
             /\ state' = set_total(st1, Len(work))
             /\ results' = IF step = 3 /\ r THEN load_partial(partial_file) ELSE <<>>
             /\ pc' = IF step = 2 /\ ~(r \/ inc) THEN "cleanup" ELSE "loop"
    /\ idx' = 0
    /\ df_new' = <<>>
    /\ executed' = {}
    /\ prior_output' = <<>>
    /\ UNCHANGED <<diskVars, step, batch_size, document_mapping, notRun>>

\* run() up to the load: the state file exists and json.load raises on it;
\* the exception leaves load() before self._state is assigned
LoadRaises ==
    /\ pc = "idle"
    /\ runs < MaxRuns
    /\ runs' = runs + 1
    /\ \E r \in BOOLEAN, inc \in BOOLEAN, lim \in Limits :
         /\ should_load(r, inc, state_file)
         /\ ~parseable(state_file)
         /\ resume' = r
         /\ incremental' = inc
         /\ limit' = lim
    /\ pc' = "load_failed"
    /\ UNCHANGED <<state, state_file, diskVars, processed, saf_numbers, idx,
                   results, df_new, loaded, executed, prior_output, step,
                   batch_size, document_mapping, notRun>>

\* the exception leaves run(): nothing catches it there and the process ends
RunRaises ==
    /\ pc = "load_failed"
    /\ pc' = "idle"
    /\ ClearLocals
    /\ UNCHANGED <<state_file, diskVars, fixedRun>>

\* Step 2, fresh start: the chunks of earlier runs are removed
Cleanup ==
    /\ pc = "cleanup"
    /\ chunk_files' = EmptyMap
    /\ pc' = "loop"
    /\ UNCHANGED <<state, state_file, partial_file, output_file, localVars, fixedRun>>

AtUnit == pc = "loop" /\ idx < Len(saf_numbers)

\* after a unit: the checkpoint when (i + 1) % batch_size == 0, else the
\* next unit
AfterUnit ==
    IF (idx + 1) % batch_size = 0
    THEN pc' = "checkpoint" /\ idx' = idx
    ELSE pc' = "loop" /\ idx' = idx + 1

\* if saf_number in processed: continue
SkipUnit ==
    /\ AtUnit
    /\ should_skip(saf_numbers[idx + 1], processed, state)
    /\ idx' = idx + 1
    /\ UNCHANGED <<state, state_file, diskVars, pc, resume, incremental, limit,
                   processed, saf_numbers, results, df_new, loaded, executed,
                   prior_output, fixedRun>>

\* the extraction of the unit returns: the result is appended, the unit is
\* marked processed and its file list recorded
UnitSucceeds ==
    /\ AtUnit
    /\ ~should_skip(saf_numbers[idx + 1], processed, state)
    /\ LET saf_number == saf_numbers[idx + 1]
           files == files_of(step, document_mapping, saf_number)
       IN  /\ results' = Append(results, [saf_number |-> saf_number,
                                          content |-> files])
           /\ state' = mark_files_processed(mark_processed(state, saf_number),
                                            saf_number, files)
           /\ executed' = executed \cup {saf_number}
    /\ AfterUnit
    /\ UNCHANGED <<state_file, diskVars, resume, incremental, limit, processed,
                   saf_numbers, df_new, loaded, prior_output, fixedRun>>

\* the extraction of the unit raises: except Exception ... mark_failed
UnitFails ==
    /\ AtUnit
    /\ ~should_skip(saf_numbers[idx + 1], processed, state)
    /\ \E e \in RunErrors :
         state' = mark_failed(state, saf_numbers[idx + 1], e)
    /\ executed' = executed \cup {saf_numbers[idx + 1]}
    /\ AfterUnit
    /\ UNCHANGED <<state_file, diskVars, resume, incremental, limit, processed,
                   saf_numbers, results, df_new, loaded, prior_output, fixedRun>>

\* checkpoint, first write: update_batch(i + 1); save()
CheckpointSave ==
    /\ pc = "checkpoint"
    /\ state' = update_batch(state, idx + 1)
    /\ state_file' = save(state')
    /\ pc' = "flush"
    /\ UNCHANGED <<diskVars, localVars, fixedRun>>

\* checkpoint, second write: _save_partial_results(results); Step 2 writes
\* a new chunk and clears the batch, Step 3 rewrites its partial file
CheckpointFlush ==
    /\ pc = "flush"
    /\ IF step = 2
       THEN /\ chunk_files' = save_chunk(chunk_files, results)
            /\ results' = <<>>
            /\ UNCHANGED partial_file
       ELSE /\ partial_file' = save_partial(partial_file, results)
            /\ UNCHANGED <<chunk_files, results>>
    /\ idx' = idx + 1
    /\ pc' = "loop"
    /\ UNCHANGED <<state, state_file, output_file, resume, incremental, limit,
                   processed, saf_numbers, df_new, loaded, executed, prior_output,
                   fixedRun>>

\* after the loop: the final save(); Step 3 goes on with df_new = results
FinalSave ==
    /\ pc = "loop"
    /\ idx = Len(saf_numbers)
    /\ state_file' = save(state)
    /\ IF step = 2
       THEN pc' = "final_flush" /\ UNCHANGED df_new
       ELSE pc' = "write_output" /\ df_new' = results
    /\ UNCHANGED <<state, diskVars, resume, incremental, limit, processed,
                   saf_numbers, idx, results, loaded, executed, prior_output,
                   fixedRun>>

\* Step 2: if results: _save_partial_results(results); results.clear()
FinalFlush ==
    /\ pc = "final_flush"
    /\ chunk_files' = save_chunk(chunk_files, results)
    /\ results' = <<>>
    /\ pc' = "collect"
    /\ UNCHANGED <<state, state_file, partial_file, output_file, resume,
                   incremental, limit, processed, saf_numbers, idx, df_new, loaded,
                   executed, prior_output, fixedRun>>

\* Step 2: df_new = _load_all_partial_results(); _cleanup_partial_results()
Collect ==
    /\ pc = "collect"
    /\ df_new' = load_all_chunks(chunk_files)
    /\ chunk_files' = EmptyMap
    /\ pc' = "write_output"
    /\ UNCHANGED <<state, state_file, partial_file, output_file, resume,
                   incremental, limit, processed, saf_numbers, idx, results, loaded,
                   executed, prior_output, fixedRun>>

\* the merge with the existing output in incremental mode, and to_parquet
WriteOutput ==
    /\ pc = "write_output"
    /\ prior_output' = output_file
    /\ output_file' = <<merge_output(incremental, output_file, df_new)>>
    /\ pc' = "done"
    /\ UNCHANGED <<state, state_file, chunk_files, partial_file, resume,
                   incremental, limit, processed, saf_numbers, idx, results, df_new,
                   loaded, executed, fixedRun>>

\* run() has returned and the process ends
Finish ==
    /\ pc = "done"
    /\ pc' = "idle"
    /\ ClearLocals
    /\ UNCHANGED <<state_file, diskVars, fixedRun>>

\* the process dies inside the save() of a checkpoint or inside the final
\* save(): the state file is left open for writing with part of the document
CrashInSave ==
    /\ \/ pc = "checkpoint"
       \/ pc = "loop" /\ idx = Len(saf_numbers)
    /\ \E n \in 0..(Len(StateKeys) - 1) :
         state_file' = written(IF pc = "checkpoint" THEN update_batch(state, idx + 1)
                               ELSE state, n)
    /\ pc' = "idle"
    /\ ClearLocals
    /\ UNCHANGED <<diskVars, fixedRun>>

\* the process dies: its memory is lost, the files stay
Crash ==
    /\ pc \notin {"idle", "done", "load_failed"}
    /\ pc' = "idle"
    /\ ClearLocals
    /\ UNCHANGED <<state_file, diskVars, fixedRun>>

NextRun ==
    \/ RefreshDocuments
    \/ StartRun
    \/ LoadRaises
    \/ RunRaises
    \/ Cleanup
    \/ SkipUnit
    \/ UnitSucceeds
    \/ UnitFails
    \/ CheckpointSave
    \/ CheckpointFlush
    \/ FinalSave
    \/ FinalFlush
    \/ Collect
    \/ WriteOutput
    \/ Finish
    \/ CrashInSave
    \/ Crash

SpecRun == InitRun /\ [][NextRun]_vars

\* the unit ids that have a record in some file on disk
FlushedIds ==
    UNION {Ids(chunk_files[n]) : n \in DOMAIN chunk_files}
    \cup Ids(load_partial(partial_file))
    \cup (IF exists(output_file) THEN Ids(output_file[1]) ELSE {})

Count(records, u) == Cardinality({k \in 1..Len(records) : records[k].saf_number = u})

OneRecordPerUnit(records) == \A u \in Ids(records) : Count(records, u) = 1

AfterLoop == {"final_flush", "collect", "write_output", "done"}

\* C1: at every point of a run (a crash can fall anywhere), a unit id is in
\* the persisted checkpoint's processed set only if its result is in a
\* persisted chunk or partial file or in the consolidated dataset.
C1_MarkedOnlyIfFlushed ==
    (exists(state_file) /\ parseable(state_file)) =>
        get_processed(json_load(state_file)) \subseteq FlushedIds

\* C2: an incremental run that completes has executed every unit the
\* resolver selected within the limit, also units an earlier run marked
\* processed.
C2_IncrementalExecutesSelected ==
    (pc = "done" /\ incremental) => Range(saf_numbers) \subseteq executed

\* C5: a resumed run (resume set, state file present) never invokes
\* extraction for a unit of the loaded processed set, and once its loop has
\* ended it has attempted every other unit of its work list, the units of
\* the failed map included.
C5_ResumeSkipsOnlyProcessed ==
    (pc # "idle" /\ resume /\ loaded) =>
        /\ executed \cap processed = {}
        /\ pc \in AfterLoop => Range(saf_numbers) \ processed \subseteq executed

\* a resumed run that completed, skipped the processed unit A and executed
\* unit B, which an earlier run had put in the failed map
C5_Witness ==
    /\ pc = "done" /\ resume /\ loaded
    /\ "A" \in processed
    /\ "A" \notin executed
    /\ "B" \in executed
    /\ "B" \in DOMAIN state.failed_saf_numbers
    /\ "B" \in get_processed(state)

\* C6: an incremental merge of a prior dataset with at most one record per
\* unit id and a non-empty new result set leaves exactly one record, a new
\* one, for every unit id of the new result set, and every prior record of
\* another unit id unchanged.
C6_MergeSupersedes ==
    (/\ pc = "done"
     /\ incremental
     /\ exists(prior_output)
     /\ df_new # <<>>
     /\ OneRecordPerUnit(load_partial(prior_output)))
    => LET out   == output_file[1]
           prior == prior_output[1]
       IN  /\ \A u \in Ids(df_new) :
                 /\ Count(out, u) = 1
                 /\ \A k \in 1..Len(out) :
                       out[k].saf_number = u => out[k] \in Range(df_new)
           /\ \A k \in 1..Len(prior) :
                 prior[k].saf_number \notin Ids(df_new) =>
                     /\ prior[k] \in Range(out)
                     /\ Count(out, prior[k].saf_number) = 1

\* C7: the consolidated Step 2 dataset written by a run that completes has
\* at most one record per unit id.
C7_OneRecordPerUnit ==
    (step = 2 /\ pc = "done") => OneRecordPerUnit(output_file[1])

\* C21: a run told to resume or to run incrementally that finds a state
\* file it cannot parse fails in load(), and from the failed load to the end
\* of the run nothing is written: the state file, the chunks, the partial
\* file and the dataset stay as the run found them, and the run ends.
C21_UnparseableLoadAborts ==
    /\ [][(/\ pc = "idle"
           /\ pc' # "idle"
           /\ exists(state_file)
           /\ ~parseable(state_file)
           /\ (resume' \/ incremental'))
          => (pc' = "load_failed" /\ UNCHANGED <<state_file, diskVars>>)]_vars
    /\ [][pc = "load_failed"
          => (pc' = "idle" /\ UNCHANGED <<state_file, diskVars>>)]_vars

\* a resumed run failed in load() on the document a crash inside a
\* checkpoint save left behind, with a chunk of an earlier flush on disk
C21_Witness ==
    /\ pc = "load_failed"
    /\ resume
    /\ exists(state_file)
    /\ ~parseable(state_file)
    /\ chunk_files # EmptyMap

\* C23: outside the cleanup of a fresh start, a chunk file is deleted only
\* when the consolidated dataset already holds its records, so that a crash
\* right after the deletion loses nothing; and a Step 2 run that completes
\* leaves no chunk file.
C23_ChunksDeletedAfterMerge ==
    /\ [][(/\ pc # "cleanup"
           /\ DOMAIN chunk_files \ DOMAIN chunk_files' # {})
          => /\ exists(output_file)
             /\ \A n \in DOMAIN chunk_files \ DOMAIN chunk_files' :
                   Range(chunk_files[n]) \subseteq Range(output_file[1])]_vars
    /\ []((step = 2 /\ pc = "done") => chunk_files = EmptyMap)

\* C34: a chunk flush of Step 2 writes the batch to the lowest chunk number
\* that no chunk file has and leaves every existing chunk file as it is; an
\* empty batch writes no chunk.
C34_ChunksImmutable ==
    [][(step = 2 /\ pc \in {"flush", "final_flush"} /\ pc' # "idle") =>
          IF results = <<>> THEN chunk_files' = chunk_files
          ELSE \E n \in 0..Cardinality(DOMAIN chunk_files) :
                  /\ n \notin DOMAIN chunk_files
                  /\ \A lower \in 0..(n - 1) : lower \in DOMAIN chunk_files
                  /\ DOMAIN chunk_files' = DOMAIN chunk_files \cup {n}
                  /\ chunk_files'[n] = results
                  /\ \A old \in DOMAIN chunk_files :
                        chunk_files'[old] = chunk_files[old]]_vars

\* the second checkpoint of a Step 2 run with batch size 1 has written
\* chunk 1 next to chunk 0
C34_Witness ==
    /\ step = 2
    /\ batch_size = 1
    /\ pc = "loop"
    /\ DOMAIN chunk_files = {0, 1}
    /\ Ids(chunk_files[0]) = {"A"}
    /\ Ids(chunk_files[1]) = {"B"}
    /\ results = <<>>


\* C36: when a Step 2 or Step 3 run has terminated normally, in any mode
\* and after any earlier runs and crashes, every unit id of the persisted
\* processed set has a record in the consolidated dataset of the step.
C36_ProcessedHaveRecords ==
    (pc = "done" /\ exists(state_file) /\ parseable(state_file)) =>
        PersistedProcessed(state_file) \subseteq Ids(output_file[1])

\* C37: an incremental run that executed no unit leaves the consolidated
\* dataset it found as it was: every record of it is in the dataset after
\* the run.
C37_IdleIncrementalKeepsOutput ==
    (pc = "done" /\ incremental /\ executed = {} /\ exists(prior_output)) =>
        Range(prior_output[1]) \subseteq Range(output_file[1])

----------------------------------------------------------------------------
(* SpecBatch: the Step 2 runner over a document mapping of four units with *)
(* one file each, so that a batch of two units can fill more than once in  *)
(* a run.  The steps of a run are those of SpecRun; the document mapping   *)
(* stays as it is.                                                         *)

BatchMapping ==
    [specs   |-> [k \in 1..Len(UnitOrder) |-> <<UnitOrder[k], <<"f1">>>>],
     permit  |-> <<>>,
     license |-> <<>>]

InitBatch ==
    /\ StoreIdle
    /\ ResolveIdle
    /\ RetryIdle
    /\ ExecIdle
    /\ FileIdle
    /\ UnitIdle
    /\ save_pc = "off"
    /\ ClassIdle
    /\ step = 2
    /\ batch_size \in 1..MaxBatch
    /\ document_mapping = BatchMapping
    /\ chunk_files = EmptyMap
    /\ partial_file = <<>>
    /\ output_file = <<>>
    /\ pc = "idle"
    /\ LocalsIdle
    /\ runs = 0

NextBatch ==
    \/ StartRun
    \/ LoadRaises
    \/ RunRaises
    \/ Cleanup
    \/ SkipUnit
    \/ UnitSucceeds
    \/ UnitFails
    \/ CheckpointSave
    \/ CheckpointFlush
    \/ FinalSave
    \/ FinalFlush
    \/ Collect
    \/ WriteOutput
    \/ Finish
    \/ CrashInSave
    \/ Crash

SpecBatch == InitBatch /\ [][NextBatch]_vars

\* C22: in a Step 2 run with batch size K, fresh, resumed or incremental,
\* the results of at most K completed units are held in memory only: the
\* flush comes after every K completed units and at the end of the run.
C22_BatchBounded ==
    (step = 2 /\ pc # "idle") => Len(results) <= batch_size

----------------------------------------------------------------------------
(* SpecExec: the extraction calls of one Step 2 run.  The run loop calls   *)
(* asyncio.run(process_saf_files(unit)) for one unit after the other;      *)
(* each call starts a new event loop, gathers one process_file task per    *)
(* file and returns when all of them have resolved.  All tasks of all      *)
(* units share the extractor's one semaphore.                              *)
(*                                                                         *)
(* Scheduling is that of an asyncio event loop with calls of nonzero       *)
(* latency: the tasks created by gather run their first slice in file      *)
(* order, a task woken by a release runs before the loop handles another   *)
(* completion, and semaphore waiters are served first come, first served.  *)
(* The semaphore is created at the first process_file call of the run and  *)
(* binds to one event loop: the one it is created in or, from Python 3.10  *)
(* on, the one in which a task first has to wait for it.  A task that has  *)
(* to wait for it in another event loop                                    *)
(* raises RuntimeError out of process_file (the acquire is outside the     *)
(* try), gather raises, and asyncio.run cancels the tasks still running.   *)

Min(a, b) == IF a < b THEN a ELSE b
Max(a, b) == IF a < b THEN b ELSE a

TasksIn(S) == {f \in DOMAIN task_pc : task_pc[f] \in S}

\* the instrumented counter: tasks inside  async with self.semaphore
InFlight == Cardinality(TasksIn({"inflight"}))

\* the first task in file order that has not yet got the semaphore
NextTask == CHOOSE f \in TasksIn({"pending", "waiting"}) :
                \A g \in TasksIn({"pending", "waiting"}) : f <= g

\* a limiter that never blocks
semaphore_free_always(value) == TRUE

\* not Semaphore.locked(): the value is positive
semaphore_free(value) == value > 0

\* cancelled calls that keep the limiter
released_on_cancel_none(n) == 0

\* a cancelled task leaves  async with self.semaphore : each of the n calls
\* in flight releases the semaphore
released_on_cancel(n) == n

\* asyncio.Semaphore(1)
semaphore_init_one(c) == 1

\* asyncio.Semaphore(self._max_concurrent)
semaphore_init(c) == c

InitExec ==
    /\ StoreIdle
    /\ ResolveIdle
    /\ RetryIdle
    /\ RunIdle
    /\ FileIdle
    /\ UnitIdle
    /\ save_pc = "off"
    /\ ClassIdle
    /\ max_concurrent \in 1..MaxConcurrent
    /\ loop_at_init \in BOOLEAN
    /\ n_units \in 1..MaxExecUnits
    /\ unit_no = 0
    /\ exec_pc = "next"
    /\ task_pc = <<>>
    /\ sem_value = semaphore_init(max_concurrent)
    /\ sem_loop = 0
    /\ max_in_flight = 0
    /\ most_files = 0
    /\ least_files = MaxUnitFiles

\* the next unit of the loop: get_files_for_saf lists its files; no file,
\* no task; else one task per file is handed to gather
StartUnit ==
    /\ exec_pc = "next"
    /\ unit_no < n_units
    /\ unit_no' = unit_no + 1
    /\ \E nf \in 0..MaxUnitFiles :
         /\ task_pc' = [f \in 1..nf |-> "pending"]
         /\ exec_pc' = IF nf = 0 THEN "next" ELSE "gather"
         /\ most_files' = Max(most_files, nf)
         /\ least_files' = Min(least_files, nf)
    /\ UNCHANGED <<max_concurrent, loop_at_init, n_units, sem_value, sem_loop, max_in_flight,
                   notExec>>

\* async with self.semaphore: the semaphore is free, the task takes it and
\* starts its download and OCR call
Acquire ==
    /\ exec_pc = "gather"
    /\ TasksIn({"pending", "waiting"}) # {}
    /\ semaphore_free(sem_value)
    /\ sem_value' = sem_value - 1
    /\ task_pc' = [task_pc EXCEPT ![NextTask] = "inflight"]
    /\ max_in_flight' = Max(max_in_flight, InFlight + 1)
    /\ sem_loop' = IF sem_loop = 0 /\ loop_at_init THEN unit_no ELSE sem_loop
    /\ UNCHANGED <<max_concurrent, loop_at_init, n_units, unit_no, exec_pc,
                   most_files, least_files, notExec>>

\* the semaphore is taken: the task waits, in the event loop the semaphore
\* is bound to (it binds to this one if it was bound to none)
Wait ==
    /\ exec_pc = "gather"
    /\ TasksIn({"pending"}) # {}
    /\ ~semaphore_free(sem_value)
    /\ sem_loop \in {0, unit_no}
    /\ sem_loop' = unit_no
    /\ task_pc' = [task_pc EXCEPT
                      ![CHOOSE f \in TasksIn({"pending"}) :
                            \A g \in TasksIn({"pending"}) : f <= g] = "waiting"]
    /\ UNCHANGED <<max_concurrent, loop_at_init, n_units, unit_no, exec_pc, sem_value,
                   max_in_flight, most_files, least_files, notExec>>

\* the semaphore is taken and bound to the event loop of an earlier unit:
\* the acquire raises RuntimeError
WaitRaises ==
    /\ exec_pc = "gather"
    /\ TasksIn({"pending"}) # {}
    /\ ~semaphore_free(sem_value)
    /\ sem_loop \notin {0, unit_no}
    /\ task_pc' = [task_pc EXCEPT
                      ![CHOOSE f \in TasksIn({"pending"}) :
                            \A g \in TasksIn({"pending"}) : f <= g] = "raised"]
    /\ UNCHANGED <<max_concurrent, loop_at_init, n_units, unit_no, exec_pc, sem_value, sem_loop,
                   max_in_flight, most_files, least_files, notExec>>

\* a call in flight returns or raises inside the try: process_file returns
\* its (text, error) pair and leaves the async with, releasing the semaphore
Complete ==
    /\ exec_pc = "gather"
    /\ TasksIn({"pending", "raised"}) = {}
    /\ TasksIn({"waiting"}) # {} => ~semaphore_free(sem_value)
    /\ \E f \in TasksIn({"inflight"}) :
         task_pc' = [task_pc EXCEPT ![f] = "done"]
    /\ sem_value' = sem_value + 1
    /\ UNCHANGED <<max_concurrent, loop_at_init, n_units, unit_no, exec_pc, sem_loop,
                   max_in_flight, most_files, least_files, notExec>>

\* results = await asyncio.gather(*tasks): every task has resolved
GatherReturns ==
    /\ exec_pc = "gather"
    /\ TasksIn({"done"}) = DOMAIN task_pc
    /\ exec_pc' = "next"
    /\ task_pc' = <<>>
    /\ UNCHANGED <<max_concurrent, loop_at_init, n_units, unit_no, sem_value, sem_loop,
                   max_in_flight, most_files, least_files, notExec>>

\* gather raises the RuntimeError of a task; asyncio.run cancels the other
\* tasks, those in flight leave the async with and release the semaphore;
\* the run loop marks the unit failed and goes on
GatherRaises ==
    /\ exec_pc = "gather"
    /\ TasksIn({"pending"}) = {}
    /\ TasksIn({"raised"}) # {}
    /\ sem_value' = sem_value + released_on_cancel(InFlight)
    /\ exec_pc' = "next"
    /\ task_pc' = <<>>
    /\ UNCHANGED <<max_concurrent, loop_at_init, n_units, unit_no, sem_loop, max_in_flight,
                   most_files, least_files, notExec>>

\* the loop over the units has ended
ExecFinish ==
    /\ exec_pc = "next"
    /\ unit_no = n_units
    /\ exec_pc' = "finished"
    /\ UNCHANGED <<max_concurrent, loop_at_init, n_units, unit_no, task_pc, sem_value, sem_loop,
                   max_in_flight, most_files, least_files, notExec>>

NextExec ==
    \/ StartUnit
    \/ Acquire
    \/ Wait
    \/ WaitRaises
    \/ Complete
    \/ GatherReturns
    \/ GatherRaises
    \/ ExecFinish

SpecExec == InitExec /\ [][NextExec]_vars

\* C8: in every state of a run the number of extraction calls in flight is
\* at most max_concurrent, over all files of all units.
C8_InFlightBounded ==
    /\ InFlight <= max_concurrent
    /\ max_in_flight <= max_concurrent

\* max_concurrent calls are in flight while another file of a later unit
\* waits for the semaphore
C8_Witness ==
    /\ exec_pc = "gather"
    /\ unit_no = 2
    /\ max_concurrent = 2
    /\ InFlight = 2
    /\ TasksIn({"waiting"}) # {}

\* C9 as stated: with C = 2 and a run over 10 units, each with at least one
\* file, the in-flight count never exceeds 2 and has reached 2 when the run
\* ends.
C9_ReachesTwo ==
    /\ max_concurrent = 2 => InFlight <= 2
    /\ (/\ exec_pc = "finished"
        /\ max_concurrent = 2
        /\ n_units = 10
        /\ least_files >= 1) => max_in_flight = 2

\* C9 amended: the in-flight count never exceeds C, and when the run ends
\* its largest value is the smaller of C and the largest file count of one
\* unit: units are extracted one after the other, so with C = 2 the count
\* reaches 2 exactly when some unit has at least two files.
C9_HighWaterMark ==
    /\ InFlight <= max_concurrent
    /\ exec_pc = "finished" => max_in_flight = Min(max_concurrent, most_files)

\* a finished run over 10 units with C = 2 that reached 2 calls in flight
C9_Witness ==
    /\ exec_pc = "finished"
    /\ max_concurrent = 2
    /\ n_units = 10
    /\ least_files = 1
    /\ most_files = 2
    /\ max_in_flight = 2

\* C31: no error of a single file makes its unit fail: no process_file call
\* raises, from the acquisition of the limiter to the end of the
\* extraction, so the gather of a unit never raises and the unit is not
\* marked failed for a file.
C31_FileErrorsStayInFile ==
    \A f \in DOMAIN task_pc : task_pc[f] # "raised"

\* C38: units are executed one at a time, in the order of the work list and
\* each at most once: the tasks of a unit are dispatched only when no task
\* of an earlier unit is pending, waiting or in flight and none holds the
\* limiter, and calls are in flight only inside the gather of the current
\* unit.
C38_OneUnitAtATime ==
    /\ [][unit_no' # unit_no =>
              /\ unit_no' = unit_no + 1
              /\ unit_no' <= n_units
              /\ exec_pc = "next"
              /\ task_pc = <<>>
              /\ sem_value = semaphore_init(max_concurrent)]_vars
    /\ [](TasksIn({"pending", "waiting", "inflight", "raised"}) # {}
             => exec_pc = "gather")
    /\ [](exec_pc = "finished" => unit_no = n_units /\ task_pc = <<>>)

\* the third unit, with the limiter bound to the event loop of the first:
\* two calls are in flight and the acquire of a third task has raised, so
\* the gather raises and the calls in flight are cancelled
C38_Witness ==
    /\ unit_no = 3
    /\ exec_pc = "gather"
    /\ sem_loop = 1
    /\ max_concurrent = 2
    /\ least_files = 3
    /\ InFlight = 2
    /\ TasksIn({"raised"}) # {}
----------------------------------------------------------------------------
(* SpecFile: the extraction of one file.  OCRExtractor.process_file        *)
(* downloads the file and awaits OCRClient.process_file, which submits the *)
(* file (submit_file, the one function decorated with retry_async) and     *)
(* then polls for the result (wait_for_result, not decorated).  Every      *)
(* exception is caught by process_file, which returns (text, error).       *)
(* The submit stage is the retry wrapper of SpecRetry, with the            *)
(* decorator's arguments; time is counted in poll intervals.               *)

SubmitAttempts == 3   \* @retry_async(max_attempts=3, ...)
SubmitDelay == 5      \* @retry_async(..., delay=5, ...)
SubmitBackoff == 2    \* @retry_async(..., backoff=2, ...)

\* raw_text of a completed request: text, blank text, or nothing
Texts == {"text", " ", ""}

\* the status values the service reports, upper-cased
Statuses == {"COMPLETED", "FAILED", "ERROR", "PROCESSING", ""}

\* if status == "COMPLETED"
service_completed(status) == status = "COMPLETED"

\* if status in ("FAILED", "ERROR")
service_failed(status) == status \in {"FAILED", "ERROR"}

\* a test that lets one more poll through
timed_out_late(t, timeout) == t > timeout + 1

\* if elapsed > self._timeout
timed_out(t, timeout) == t > timeout

InitFile ==
    /\ StoreIdle
    /\ ResolveIdle
    /\ RunIdle
    /\ ExecIdle
    /\ UnitIdle
    /\ save_pc = "off"
    /\ ClassIdle
    /\ max_attempts = SubmitAttempts
    /\ delay = SubmitDelay
    /\ backoff = SubmitBackoff
    /\ attempt = 0
    /\ current_delay = delay
    /\ last_exception = <<>>
    /\ retry_pc = "off"
    /\ calls = 0
    /\ waits = <<>>
    /\ outcome = <<>>
    /\ file_pc = "download"
    /\ ocr_timeout \in 1..MaxTimeout
    /\ elapsed = 0
    /\ polls = 0
    /\ fetch_attempts = 0
    /\ file_error = <<>>
    /\ file_return = <<>>

\* process_file returns ("", error) from one of its except clauses
Fails(kind, stage, error) ==
    /\ file_pc' = "returned"
    /\ file_error' = <<kind, stage>>
    /\ file_return' = <<"", error>>

\* file_data = self._minio.download_file(object_name); then submit_file is
\* called through the wrapper
DownloadReturns ==
    /\ file_pc = "download"
    /\ file_pc' = "submit"
    /\ retry_pc' = "call"
    /\ UNCHANGED <<max_attempts, delay, backoff, attempt, current_delay,
                   last_exception, calls, waits, outcome, ocr_timeout, elapsed,
                   polls, fetch_attempts, file_error, file_return, notFile>>

\* the download raises: except Exception
DownloadRaises ==
    /\ file_pc = "download"
    /\ Fails("other", "download", "Unexpected error")
    /\ UNCHANGED <<retryVars, ocr_timeout, elapsed, polls, fetch_attempts, notFile>>

\* submit_file returned the request id: wait_for_result starts its clock
SubmitReturned ==
    /\ file_pc = "submit"
    /\ retry_pc = "returned"
    /\ file_pc' = "poll"
    /\ fetch_attempts' = fetch_attempts + 1
    /\ elapsed' = 0
    /\ UNCHANGED <<retryVars, ocr_timeout, polls, file_error, file_return, notFile>>

\* the wrapper raised (the last retryable exception, or one it does not
\* catch): except Exception in process_file
SubmitRaised ==
    /\ file_pc = "submit"
    /\ retry_pc = "raised"
    /\ Fails(outcome[1], "submit", "Unexpected error")
    /\ UNCHANGED <<retryVars, ocr_timeout, elapsed, polls, fetch_attempts, notFile>>

\* wait_for_result: the time is up, OCRTimeoutError
PollTimeout ==
    /\ file_pc = "poll"
    /\ timed_out(elapsed, ocr_timeout)
    /\ Fails("timeout", "fetch", "OCR timeout")
    /\ UNCHANGED <<retryVars, ocr_timeout, elapsed, polls, fetch_attempts, notFile>>

\* get_result returns a status that is neither completed nor failed; the
\* request took dt, then asyncio.sleep(poll_interval)
PollPending ==
    /\ file_pc = "poll"
    /\ ~timed_out(elapsed, ocr_timeout)
    /\ \E status \in Statuses :
         /\ ~service_completed(status)
         /\ ~service_failed(status)
    /\ polls' = polls + 1
    /\ \E dt \in {0, 1} : elapsed' = elapsed + dt + 1
    /\ UNCHANGED <<retryVars, file_pc, ocr_timeout, fetch_attempts, file_error,
                   file_return, notFile>>

\* get_result returns COMPLETED: the raw text is returned
PollCompleted ==
    /\ file_pc = "poll"
    /\ ~timed_out(elapsed, ocr_timeout)
    /\ \E status \in Statuses : service_completed(status)
    /\ polls' = polls + 1
    /\ file_pc' = "returned"
    /\ \E text \in Texts : file_return' = <<text, "">>
    /\ UNCHANGED <<retryVars, ocr_timeout, elapsed, fetch_attempts, file_error,
                   notFile>>

\* get_result returns FAILED or ERROR: OCRError
PollFailed ==
    /\ file_pc = "poll"
    /\ ~timed_out(elapsed, ocr_timeout)
    /\ \E status \in Statuses :
         /\ ~service_completed(status)
         /\ service_failed(status)
    /\ polls' = polls + 1
    /\ Fails("service", "fetch", "OCR failed")
    /\ UNCHANGED <<retryVars, ocr_timeout, elapsed, fetch_attempts, notFile>>

\* get_result raises (a timeout or connection error of the HTTP client, or
\* another exception): nothing in wait_for_result or OCRClient.process_file
\* catches it
PollRaises ==
    /\ file_pc = "poll"
    /\ ~timed_out(elapsed, ocr_timeout)
    /\ polls' = polls + 1
    /\ \E kind \in ExceptionKinds : Fails(kind, "fetch", "Unexpected error")
    /\ UNCHANGED <<retryVars, ocr_timeout, elapsed, fetch_attempts, notFile>>

NextFile ==
    \/ DownloadReturns
    \/ DownloadRaises
    \/ CallReturns
    \/ CallRaisesRetryable
    \/ CallRaisesOther
    \/ Sleep
    \/ SubmitReturned
    \/ SubmitRaised
    \/ PollTimeout
    \/ PollPending
    \/ PollCompleted
    \/ PollFailed
    \/ PollRaises

SpecFile == InitFile /\ [][NextFile]_vars

\* the calls made for the stage at which the file failed
StageAttempts == IF file_error[2] = "submit" THEN calls ELSE fetch_attempts

FailedWith(kinds) ==
    /\ file_pc = "returned"
    /\ file_error # <<>>
    /\ file_error[1] \in kinds

\* C11: a file whose extraction ended in a retryable error, raised while
\* submitting the file or while fetching its result, has had N attempts of
\* that stage, with waits D, D*B, ... between them.
C11_RetryableRetried ==
    (FailedWith({"retryable"}) /\ file_error[2] \in {"submit", "fetch"}) =>
        /\ StageAttempts = max_attempts
        /\ waits = [j \in 1..(max_attempts - 1) |-> delay * Pow(backoff, j - 1)]

\* C12: a file whose wait for the result exceeded the timeout T was given
\* further attempts: it fails only once N attempts have been made.
C12_TimeoutRetried ==
    FailedWith({"timeout"}) => StageAttempts = max_attempts

NonRetryableRaised ==
    \/ retry_pc = "raised" /\ outcome[1] = "other"
    \/ file_error # <<>> /\ file_error[1] \in {"other", "service"}

\* C13: a non-retryable error (the service reports FAILED or ERROR, or an
\* exception outside the wrapper's exceptions tuple) fails the file when
\* it first occurs: no backoff wait follows such an exception, and once it
\* was raised no call is invoked again.
C13_NonRetryableFailsAtOnce ==
    /\ [](retry_pc = "sleep" => last_exception[1][1] = "retryable")
    /\ [][NonRetryableRaised =>
             /\ calls' = calls
             /\ waits' = waits
             /\ polls' = polls
             /\ fetch_attempts' = fetch_attempts]_vars

\* the file failed on a FAILED status at the second poll, after a submit
\* that was retried once; and no further call was made
C13_Witness ==
    /\ FailedWith({"service"})
    /\ calls = 2
    /\ waits = <<5>>
    /\ polls = 2
    /\ fetch_attempts = 1

----------------------------------------------------------------------------
(* SpecUnit: the extraction of one unit, "A", in a Step 2 run with         *)
(* batch_size 1: process_saf_files gathers one process_file task per file, *)
(* the tasks complete in any order, the texts and errors are assembled,    *)
(* the run loop appends the record and marks the unit, and the checkpoint  *)
(* flushes.  An object path is <<directory, saf_number, filename>>; the    *)
(* text extracted from a file is its filename, blank (" ") or empty.      *)

Separator == "---"

\* an optional list: None, or the list
None == [is_none |-> TRUE, items |-> <<>>]
Some(list) == [is_none |-> FALSE, items |-> list]

\* what a process_file task returns, <<text, error>>, followed by the kind
\* of exception that was caught ("ok" when none): see SpecFile
FileOutcomes(filename) ==
    {<<text, "", "ok">> : text \in {filename, " ", ""}}
    \cup {<<"", "Unexpected error", "retryable">>,
          <<"", "Unexpected error", "other">>,
          <<"", "OCR failed", "service">>,
          <<"", "OCR timeout", "timeout">>}

\* file_path.split("/")[-1]
basename(file_path) == file_path[Len(file_path)]

\* a strip that keeps blank text
strip_nothing(text) == text

\* text.strip()
strip(text) == IF text = " " THEN "" ELSE text

\* results in the order the tasks completed
gather_as_completed(tasks, order) ==
    [k \in 1..Len(order) |-> <<tasks[order[k]][1], tasks[order[k]][2]>>]

\* results = await asyncio.gather(*tasks): results in the order of tasks
gather(tasks, order) ==
    [k \in 1..Len(tasks) |-> <<tasks[k][1], tasks[k][2]>>]

\* separator.join(texts)
RECURSIVE join(_, _)
join(sep, texts) ==
    IF Len(texts) = 0 THEN <<>>
    ELSE IF Len(texts) = 1 THEN texts
    ELSE <<texts[1], sep>> \o join(sep, Tail(texts))

\* for file_path, (text, error) in zip(files, results): from pair k on
RECURSIVE AssembleLoop(_, _, _, _)
AssembleLoop(files, rs, k, acc) ==
    IF k > Len(files) \/ k > Len(rs) THEN acc
    ELSE LET filename == basename(files[k])
             text     == rs[k][1]
             error    == rs[k][2]
         IN  IF error # ""
             THEN AssembleLoop(files, rs, k + 1,
                      [acc EXCEPT !.errors = Append(@, <<filename, error>>)])
             ELSE IF strip(text) # ""
             THEN AssembleLoop(files, rs, k + 1,
                      [acc EXCEPT !.texts = Append(@, text),
                                  !.processed = Append(@, filename)])
             ELSE AssembleLoop(files, rs, k + 1,
                      [acc EXCEPT !.errors =
                           Append(@, <<filename, "Empty OCR result">>)])

\* an assembly that returns the error list as it is, empty or not
assemble_keep_list(files, rs) ==
    LET acc == AssembleLoop(files, rs, 1,
                            [texts |-> <<>>, processed |-> <<>>, errors |-> <<>>])
    IN  <<IF acc.texts # <<>> THEN join(Separator, acc.texts) ELSE <<>>,
          acc.processed,
          Some(acc.errors)>>

\* process_saf_files after the gather: (combined_text, processed, errors)
assemble(files, rs) ==
    LET acc == AssembleLoop(files, rs, 1,
                            [texts |-> <<>>, processed |-> <<>>, errors |-> <<>>])
    IN  <<IF acc.texts # <<>> THEN join(Separator, acc.texts) ELSE <<>>,
          acc.processed,
          IF acc.errors # <<>> THEN Some(acc.errors) ELSE None>>

UnitPaths == {[k \in 1..Len(l) |-> <<"specs", "A", l[k]>>] : l \in Listings}

\* the outcome of a task that raised out of process_file, and of a task
\* that was cancelled: no <<text, error>> pair, only the kind
Raised    == <<"", "", "raised">>
Cancelled == <<"", "", "cancelled">>

\* the tasks when no loop is closed behind them
cancel_none(tasks) == tasks

\* asyncio.run leaving with an exception: the tasks still running are
\* cancelled and awaited before the loop is closed
cancel_all(tasks) ==
    [k \in DOMAIN tasks |-> IF tasks[k] = <<>> THEN Cancelled ELSE tasks[k]]

\* a task that was created and has not ended
InFlightTasks == {k \in DOMAIN unit_tasks : unit_tasks[k] = <<>>}

\* the document mapping of the run: the file list step 1 recorded for the
\* unit (never empty); the live listing of the extraction may differ
UnitMappings ==
    {[specs |-> <<<<"A", l>>>>, permit |-> <<>>, license |-> <<>>] :
        l \in UnitPaths \ {<<>>}}

InitUnit ==
    /\ state = _create_initial_state
    /\ state_file = save(_create_initial_state)
    /\ last_files = EmptyMap
    /\ saved_files = EmptyMap
    /\ ops = 0
    /\ ResolveIdle
    /\ RetryIdle
    /\ step = 2
    /\ batch_size = 1
    /\ document_mapping \in UnitMappings
    /\ chunk_files = EmptyMap
    /\ partial_file = <<>>
    /\ output_file = <<>>
    /\ pc = "idle"
    /\ LocalsIdle
    /\ runs = 0
    /\ ExecIdle
    /\ FileIdle
    /\ save_pc = "off"
    /\ ClassIdle
    /\ unit_files \in UnitPaths
    /\ unit_tasks = <<>>
    /\ unit_pc = "listing"
    /\ completion = <<>>
    /\ unit_return = <<>>

\* get_files_for_saf returns; one process_file task per file is created
\* and gathered
ListingReturns ==
    /\ unit_pc = "listing"
    /\ unit_tasks' = [k \in 1..Len(unit_files) |-> <<>>]
    /\ unit_pc' = "gather"
    /\ UNCHANGED <<state, state_file, results, chunk_files, unit_files, completion,
                   unit_return, notUnit>>

\* get_files_for_saf raises: process_saf_files raises before any task
\* exists, and asyncio.run raises
ListingRaises ==
    /\ unit_pc = "listing"
    /\ unit_pc' = "raised"
    /\ UNCHANGED <<state, state_file, results, chunk_files, unit_files, unit_tasks,
                   completion, unit_return, notUnit>>

\* a task raises out of process_file (the semaphore is entered outside
\* the try): gather raises at once, process_saf_files raises, and
\* asyncio.run cancels the tasks still running before it raises
TaskRaises ==
    /\ unit_pc = "gather"
    /\ \E k \in InFlightTasks :
         /\ unit_tasks' = cancel_all([unit_tasks EXCEPT ![k] = Raised])
         /\ completion' = Append(completion, k)
    /\ unit_pc' = "raised"
    /\ UNCHANGED <<state, state_file, results, chunk_files, unit_files,
                   unit_return, notUnit>>

\* the run loop: except Exception: mark_failed
UnitFailed ==
    /\ unit_pc = "raised"
    /\ \E e \in RunErrors : state' = mark_failed(state, "A", e)
    /\ unit_pc' = "marked"
    /\ UNCHANGED <<state_file, results, chunk_files, unit_files, unit_tasks,
                   completion, unit_return, notUnit>>

\* one of the running process_file tasks returns
TaskReturns ==
    /\ unit_pc = "gather"
    /\ \E k \in DOMAIN unit_tasks :
         /\ unit_tasks[k] = <<>>
         /\ \E r \in FileOutcomes(basename(unit_files[k])) :
              unit_tasks' = [unit_tasks EXCEPT ![k] = r]
         /\ completion' = Append(completion, k)
    /\ UNCHANGED <<state, state_file, results, chunk_files, unit_pc, unit_files,
                   unit_return, notUnit>>

\* no files: return "", [], None; else the gather returns and the texts
\* and errors are assembled
UnitReturns ==
    /\ unit_pc = "gather"
    /\ InFlightTasks = {}
    /\ unit_return' = IF unit_files = <<>> THEN <<<<>>, <<>>, None>>
                       ELSE assemble(unit_files, gather(unit_tasks, completion))
    /\ unit_pc' = "returned"
    /\ UNCHANGED <<state, state_file, results, chunk_files, unit_files, unit_tasks,
                   completion, notUnit>>

\* the run loop: results.append(result); mark_processed;
\* mark_files_processed with the unit's list of the document mapping
UnitRecorded ==
    /\ unit_pc = "returned"
    /\ results' = Append(results, [saf_number           |-> "A",
                                   tech_description     |-> unit_return[1],
                                   tech_files_processed |-> unit_return[2],
                                   tech_ocr_errors      |-> unit_return[3]])
    /\ state' = mark_files_processed(mark_processed(state, "A"), "A",
                                     files_of(step, document_mapping, "A"))
    /\ unit_pc' = "marked"
    /\ UNCHANGED <<state_file, chunk_files, unit_files, unit_tasks, completion,
                   unit_return, notUnit>>

\* the checkpoint: update_batch, save, _save_partial_results, clear
UnitCheckpoint ==
    /\ unit_pc = "marked"
    /\ state' = update_batch(state, 1)
    /\ state_file' = save(state')
    /\ chunk_files' = save_chunk(chunk_files, results)
    /\ results' = <<>>
    /\ unit_pc' = "flushed"
    /\ UNCHANGED <<unit_files, unit_tasks, completion, unit_return, notUnit>>

NextUnit ==
    \/ ListingReturns
    \/ ListingRaises
    \/ TaskReturns
    \/ TaskRaises
    \/ UnitFailed
    \/ UnitReturns
    \/ UnitRecorded
    \/ UnitCheckpoint

SpecUnit == InitUnit /\ [][NextUnit]_vars

\* the extraction of the unit returned and the run loop has marked it
Extracted == unit_pc \in {"marked", "flushed"} /\ unit_return # <<>>

\* the files of the unit, by index, that failed with one of the kinds
FilesFailedWith(kinds) == {k \in DOMAIN unit_tasks : unit_tasks[k][3] \in kinds}

\* C14: a unit whose extraction ended in a transient error that persisted
\* through all attempts, or in a failure reported by the service, is in the
\* failed map and not in the processed set.
C14_FailedUnitMarkedFailed ==
    (/\ Extracted
     /\ unit_files # <<>>
     /\ FilesFailedWith({"retryable", "service"}) = DOMAIN unit_tasks)
    => /\ "A" \in DOMAIN get_failed(state)
       /\ "A" \notin get_processed(state)

\* the error strings the record has to carry: one per file that failed or
\* yielded blank or empty text, in file order
ExpectedErrors ==
    LET bad(k) == unit_tasks[k][2] # "" \/ unit_tasks[k][1] \in {"", " "}
        idx_bad == SelectSeq([k \in 1..Len(unit_files) |-> k], bad)
    IN  [j \in 1..Len(idx_bad) |->
            <<unit_files[idx_bad[j]][3],
              IF unit_tasks[idx_bad[j]][2] # "" THEN unit_tasks[idx_bad[j]][2]
              ELSE "Empty OCR result">>]

RecordCarriesErrors(record) ==
    /\ record.saf_number = "A"
    /\ record.tech_ocr_errors =
           IF ExpectedErrors = <<>> THEN None ELSE Some(ExpectedErrors)

\* C15: a unit whose extraction returned is marked processed although
\* some files failed or yielded empty text, and the record appended for
\* it, and later flushed, carries the error strings of exactly those files.
C15_PartialFailureProcessed ==
    Extracted =>
        /\ "A" \in get_processed(state)
        /\ unit_pc = "marked" =>
               Len(results) = 1 /\ RecordCarriesErrors(results[1])
        /\ unit_pc = "flushed" =>
               /\ "A" \in get_processed(json_load(state_file))
               /\ DOMAIN chunk_files = {0}
               /\ Len(chunk_files[0]) = 1
               /\ RecordCarriesErrors(chunk_files[0][1])

\* two files, the first failed at the service and the second came back
\* blank: the unit is processed and the flushed record names both
C15_Witness ==
    /\ unit_pc = "flushed"
    /\ Extracted
    /\ Len(unit_files) = 2
    /\ unit_tasks[1][3] = "service"
    /\ unit_tasks[2][1] = " "
    /\ "A" \in get_processed(state)
    /\ Len(chunk_files[0][1].tech_ocr_errors.items) = 2

\* the texts that count, in file order
ExpectedTexts ==
    LET good(k) == unit_tasks[k][2] = "" /\ unit_tasks[k][1] \notin {"", " "}
        idx_good == SelectSeq([k \in 1..Len(unit_files) |-> k], good)
    IN  [j \in 1..Len(idx_good) |-> unit_tasks[idx_good[j]][1]]

\* C16: whatever the order in which the file tasks complete, the combined
\* text is the texts of the files that returned non-blank text without
\* error, in file-list order, joined by the separator.
C16_TextInFileOrder ==
    (unit_pc # "gather" /\ unit_return # <<>>) =>
        /\ Len(unit_return[1]) =
               IF ExpectedTexts = <<>> THEN 0 ELSE 2 * Len(ExpectedTexts) - 1
        /\ \A j \in 1..Len(unit_return[1]) :
               unit_return[1][j] = IF j % 2 = 1 THEN ExpectedTexts[(j + 1) \div 2]
                                   ELSE Separator

\* the second file completed first, both returned text: the text of the
\* first file still comes first
C16_Witness ==
    /\ unit_pc = "returned"
    /\ completion = <<2, 1>>
    /\ unit_files = <<<<"specs", "A", "f2">>, <<"specs", "A", "f1">>>>
    /\ unit_return[1] = <<"f2", Separator, "f1">>

\* C29: the checkpoint state of a unit is written by the run loop only, at
\* its positions after asyncio.run has returned or raised, and never while
\* an extraction task of the unit is in flight.
C29_MutationsAfterTasks ==
    [][state' # state =>
          /\ unit_pc \in {"returned", "raised", "marked"}
          /\ InFlightTasks = {}
          /\ unit_pc' \in {"marked", "flushed"}]_vars

\* the first of two tasks raised, the second was cancelled before the run
\* loop marked the unit failed
C29_Witness ==
    /\ unit_pc = "marked"
    /\ Len(unit_files) = 2
    /\ unit_tasks = <<Raised, Cancelled>>
    /\ "A" \in DOMAIN get_failed(state)

\* the file of task k returned non-blank text without error
Succeeded(k) == unit_tasks[k][2] = "" /\ unit_tasks[k][1] \notin {"", " "}

Occurrences(list, x) == Cardinality({j \in 1..Len(list) : list[j] = x})

C39_SnapshotIsMappingList ==
    LET listed == Get(document_mapping.specs, "A", <<>>)
        saved  == load(state_file)
    IN  /\ (unit_pc \in {"marked", "flushed"} /\ unit_return # <<>>) =>
              /\ "A" \in DOMAIN get_all_processed_files(state)
              /\ get_all_processed_files(state)["A"] = listed
        /\ (unit_pc = "flushed" /\ unit_return # <<>>) =>
              /\ "A" \in DOMAIN get_all_processed_files(saved)
              /\ get_all_processed_files(saved)["A"] = listed
        /\ (unit_pc \in {"marked", "flushed"} /\ unit_return = <<>>) =>
              /\ "A" \notin DOMAIN get_all_processed_files(state)
              /\ "A" \notin DOMAIN get_all_processed_files(saved)
              /\ get_saf_numbers_with_new_files(state, document_mapping.specs)
                     = <<"A">>

\* the mapping lists f1 and f2; f1 timed out and f2 returned blank text:
\* the unit is processed with no text and the snapshot holds both files
C39_Witness ==
    /\ unit_pc = "flushed"
    /\ unit_return # <<>>
    /\ Len(unit_tasks) = 2
    /\ Get(document_mapping.specs, "A", <<>>) = unit_files
    /\ basename(unit_files[1]) = "f1"
    /\ unit_tasks[1][3] = "timeout"
    /\ unit_tasks[2] = <<" ", "", "ok">>
    /\ unit_return[2] = <<>>
    /\ "A" \in get_processed(load(state_file))
    /\ Len(load(state_file).processed_files["A"]) = 2

----------------------------------------------------------------------------
(* SpecSave: save() write by write.  save() opens the state file with      *)
(* mode "w", which empties it, and json.dump writes the document into it;  *)
(* what has reached the file when the process dies is a prefix of the      *)
(* document, cut at any member.  A later process loads the file (resume)   *)
(* or starts afresh (reset).                                               *)

InitSave ==
    /\ StoreIdle
    /\ ResolveIdle
    /\ RetryIdle
    /\ RunIdle
    /\ ExecIdle
    /\ FileIdle
    /\ UnitIdle
    /\ save_pc \in {"running", "dead"}
    /\ ClassIdle

\* the run marks a unit processed
SaveMarks ==
    /\ save_pc = "running"
    /\ ops < MaxOps
    /\ ops' = ops + 1
    /\ \E u \in Units : state' = mark_processed(state, u)
    /\ UNCHANGED <<state_file, save_pc, notSave>>

\* save(): the file is opened for writing
SaveOpens ==
    /\ save_pc = "running"
    /\ ops < MaxOps
    /\ ops' = ops + 1
    /\ state_file' = opened_for_writing
    /\ save_pc' = "saving"
    /\ UNCHANGED <<state, notSave>>

\* json.dump: more of the document reaches the file
SaveWrites ==
    /\ save_pc = "saving"
    /\ \E n \in (Len(state_file[1].members) + 1)..Len(StateKeys) :
         state_file' = written(state, n)
    /\ UNCHANGED <<state, ops, save_pc, notSave>>

\* the document is complete and the file is closed
SaveCloses ==
    /\ save_pc = "saving"
    /\ state_file = written(state, Len(StateKeys))
    /\ state_file' = json_dump(state)
    /\ save_pc' = "running"
    /\ UNCHANGED <<state, ops, notSave>>

\* the process dies: its memory is lost, the file stays as it is
ProcessDies ==
    /\ save_pc \in {"running", "saving"}
    /\ save_pc' = "dead"
    /\ state' = _create_initial_state
    /\ UNCHANGED <<state_file, ops, notSave>>

\* a resumed run: load() of a complete document
ResumeLoads ==
    /\ save_pc = "dead"
    /\ exists(state_file)
    /\ parseable(state_file)
    /\ state' = load(state_file)
    /\ save_pc' = "running"
    /\ UNCHANGED <<state_file, ops, notSave>>

\* a resumed run: json.load raises on an incomplete document
ResumeRaises ==
    /\ save_pc = "dead"
    /\ exists(state_file)
    /\ ~parseable(state_file)
    /\ save_pc' = "load_failed"
    /\ UNCHANGED <<state, state_file, ops, notSave>>

\* a fresh run: reset() builds the initial state and saves it
FreshStart ==
    /\ save_pc \in {"dead", "load_failed"}
    /\ ops < MaxOps
    /\ ops' = ops + 1
    /\ state' = _create_initial_state
    /\ state_file' = opened_for_writing
    /\ save_pc' = "saving"
    /\ UNCHANGED notSave

NextSave ==
    \/ SaveMarks
    \/ SaveOpens
    \/ SaveWrites
    \/ SaveCloses
    \/ ProcessDies
    \/ ResumeLoads
    \/ ResumeRaises
    \/ FreshStart

SpecSave == InitSave /\ [][NextSave]_vars

\* C20: save() is atomic: when the process has died, at whatever point of
\* a save, the state file holds a complete document, and the load of a
\* later run never finds a document it cannot parse.
C20_SaveAtomic ==
    /\ (save_pc = "dead" /\ exists(state_file)) => parseable(state_file)
    /\ save_pc # "load_failed"
----------------------------------------------------------------------------
(* SpecClassify: determine_license_need on one row of the final dataset.   *)
(* A string is the list of its words; a pattern is a list of elements, one *)
(* per word it asks for (the \s+ between them is the gap between two       *)
(* words), each the set of words it admits, optional for a (?:...)? group. *)
(* re.search finds the pattern at any position of the text.  The pattern   *)
(* lists hold three patterns of the source each, in the order of the       *)
(* source; no other pattern of the source matches a text made of the words *)
(* below.                                                                  *)

MaxWords == 4        \* longest text, in words, of SpecClassify

Words == {"Licenziya", "ne", "trebuetsya"}

\* str.lower(), word by word
lower(word) == IF word = "Licenziya" THEN "licenziya" ELSE word

W(S)   == [words |-> S, optional |-> FALSE]
Opt(S) == [words |-> S, optional |-> TRUE]

\* r"согласовывает\s+выдачу", r"требуется\s+(?:получение\s+)?лицензи[яию]",
\* r"подлежит\s+лицензированию"
LICENSE_REQUIRED_PATTERNS ==
    << <<W({"soglasovyvaet"}), W({"vydachu"})>>,
       <<W({"trebuetsya"}), Opt({"poluchenie"}),
         W({"licenziya", "licenzii", "licenziyu"})>>,
       <<W({"podlezhit"}), W({"licenzirovaniyu"})>> >>

\* r"не\s+требуется\s+получение\s+лицензии", r"не\s+подлежит\s+лицензированию",
\* r"лицензия\s+не\s+требуется"
LICENSE_NOT_REQUIRED_PATTERNS ==
    << <<W({"ne"}), W({"trebuetsya"}), W({"poluchenie"}), W({"licenzii"})>>,
       <<W({"ne"}), W({"podlezhit"}), W({"licenzirovaniyu"})>>,
       <<W({"licenziya"}), W({"ne"}), W({"trebuetsya"})>> >>

\* the secondary source alone
SOURCE_PRIORITY_permit_only == <<"permit_text">>

\* the secondary source first
SOURCE_PRIORITY_permit_first == <<"permit_text", "license_text">>

SOURCE_PRIORITY == <<"license_text", "permit_text">>

\* the pattern, from element i on, matches the words from position j on
RECURSIVE MatchAt(_, _, _, _)
MatchAt(pattern, i, words, j) ==
    IF i > Len(pattern) THEN TRUE
    ELSE \/ /\ pattern[i].optional
            /\ MatchAt(pattern, i + 1, words, j)
         \/ /\ j <= Len(words)
            /\ words[j] \in pattern[i].words
            /\ MatchAt(pattern, i + 1, words, j + 1)

\* re.search(pattern, text_lower, re.IGNORECASE | re.UNICODE)
re_search(pattern, words) ==
    \E j \in 1..(Len(words) + 1) : MatchAt(pattern, 1, words, j)

\* text.lower()
text_lower(text) == [k \in 1..Len(text.words) |-> lower(text.words[k])]

\* a test of the first pattern of the list only
_check_patterns_first_only(text, patterns) ==
    IF ~text.is_str \/ text.words = <<>> THEN FALSE
    ELSE Len(patterns) > 0 /\ re_search(patterns[1], text_lower(text))

\* _check_patterns: False for what is no string or is empty, else whether
\* any pattern of the list is found in the lower-cased text
_check_patterns(text, patterns) ==
    IF ~text.is_str \/ text.words = <<>> THEN FALSE
    ELSE \E k \in 1..Len(patterns) : re_search(patterns[k], text_lower(text))

\* one source, the NotRequired patterns tested first
source_decision_not_required_first(name, text, required, not_required) ==
    IF _check_patterns(text, not_required)
    THEN [decision |-> "False", tested |-> <<<<name, "not_required">>>>]
    ELSE IF _check_patterns(text, required)
    THEN [decision |-> "True",
          tested |-> <<<<name, "not_required">>, <<name, "required">>>>]
    ELSE [decision |-> "None",
          tested |-> <<<<name, "not_required">>, <<name, "required">>>>]

\* the body of the loop for one usable source: the Required patterns, then
\* the NotRequired patterns; "None" when neither set matches
source_decision(name, text, required, not_required) ==
    IF _check_patterns(text, required)
    THEN [decision |-> "True", tested |-> <<<<name, "required">>>>]
    ELSE IF _check_patterns(text, not_required)
    THEN [decision |-> "False",
          tested |-> <<<<name, "required">>, <<name, "not_required">>>>]
    ELSE [decision |-> "None",
          tested |-> <<<<name, "required">>, <<name, "not_required">>>>]

\* for source_name in SOURCE_PRIORITY: from source k on
RECURSIVE PriorityLoop(_, _, _, _, _, _)
PriorityLoop(permit, license, required, not_required, k, tested) ==
    IF k > Len(SOURCE_PRIORITY) THEN [decision |-> "None", tested |-> tested]
    ELSE LET source_name == SOURCE_PRIORITY[k]
             text == IF source_name = "license_text" THEN license ELSE permit
         IN  IF ~text.is_str \/ text.words = <<>>
             THEN PriorityLoop(permit, license, required, not_required, k + 1, tested)
             ELSE LET d == source_decision(source_name, text, required, not_required)
                  IN  IF d.decision # "None"
                      THEN [decision |-> d.decision, tested |-> tested \o d.tested]
                      ELSE PriorityLoop(permit, license, required, not_required,
                                        k + 1, tested \o d.tested)

\* determine_license_need with the pattern lists as arguments
determine_license_need_with(permit, license, required, not_required) ==
    PriorityLoop(permit, license, required, not_required, 1, <<>>)

determine_license_need(permit, license) ==
    determine_license_need_with(permit, license, LICENSE_REQUIRED_PATTERNS,
                                LICENSE_NOT_REQUIRED_PATTERNS)

\* the values of a text column: no string, the empty string, or a text
TextValues == {NoText} \cup {Text(ws) : ws \in SeqsUpTo(Words, MaxWords)}

InitClassify ==
    /\ StoreIdle
    /\ ResolveIdle
    /\ RetryIdle
    /\ RunIdle
    /\ ExecIdle
    /\ FileIdle
    /\ UnitIdle
    /\ save_pc = "off"
    /\ permit_text \in TextValues
    /\ license_text \in TextValues
    /\ license_need = "None"
    /\ consulted = <<>>
    /\ class_pc = "row"

\* df.apply(lambda row: determine_license_need(row.get("permit_text"),
\* row.get("license_text")))
Classify ==
    /\ class_pc = "row"
    /\ LET r == determine_license_need(permit_text, license_text)
       IN  /\ license_need' = r.decision
           /\ consulted' = r.tested
    /\ class_pc' = "classified"
    /\ UNCHANGED <<permit_text, license_text, notClass>>

NextClassify ==
    \/ Classify

SpecClassify == InitClassify /\ [][NextClassify]_vars

\* some pattern of the list is found in the text
Found(text, patterns) ==
    /\ text.is_str
    /\ \E k \in 1..Len(patterns) :
          re_search(patterns[k], [i \in 1..Len(text.words) |-> lower(text.words[i])])

Decides(text) ==
    \/ Found(text, LICENSE_REQUIRED_PATTERNS)
    \/ Found(text, LICENSE_NOT_REQUIRED_PATTERNS)

Usable(text) == text.is_str /\ text.words # <<>>

SourcesConsulted == {consulted[k][1] : k \in 1..Len(consulted)}

\* C24: license_text comes before permit_text: a license_text that matches
\* a Required pattern makes the decision Required, one that matches a
\* NotRequired pattern and no Required pattern makes it NotRequired,
\* whatever permit_text holds, and permit_text is then not consulted.
C24_PriorityOrder ==
    class_pc = "classified" =>
        /\ Found(license_text, LICENSE_REQUIRED_PATTERNS) =>
               /\ license_need = "True"
               /\ "permit_text" \notin SourcesConsulted
        /\ (/\ Found(license_text, LICENSE_NOT_REQUIRED_PATTERNS)
            /\ ~Found(license_text, LICENSE_REQUIRED_PATTERNS)) =>
               /\ license_need = "False"
               /\ "permit_text" \notin SourcesConsulted

\* license_text asks for a licence, permit_text says none is needed: Required
C24_Witness ==
    /\ class_pc = "classified"
    /\ license_text = Text(<<"trebuetsya", "Licenziya">>)
    /\ permit_text = Text(<<"Licenziya", "ne", "trebuetsya">>)
    /\ license_need = "True"
    /\ consulted = <<<<"license_text", "required">>>>

\* C25: within a source the Required patterns come first: a text that
\* matches a pattern of both sets, in the first source that decides, makes
\* the decision Required, and the NotRequired patterns are tested neither
\* on that source nor on a later one.
C25_RequiredFirst ==
    class_pc = "classified" =>
        /\ (/\ Found(license_text, LICENSE_REQUIRED_PATTERNS)
            /\ Found(license_text, LICENSE_NOT_REQUIRED_PATTERNS)) =>
               /\ license_need = "True"
               /\ \A k \in 1..Len(consulted) : consulted[k][2] # "not_required"
        /\ (/\ ~Decides(license_text)
            /\ Found(permit_text, LICENSE_REQUIRED_PATTERNS)
            /\ Found(permit_text, LICENSE_NOT_REQUIRED_PATTERNS)) =>
               /\ license_need = "True"
               /\ <<"permit_text", "not_required">> \notin Range(consulted)

\* license_text matches a pattern of both sets and permit_text a
\* NotRequired pattern: Required, after the one test of the Required patterns
C25_Witness ==
    /\ class_pc = "classified"
    /\ license_text = Text(<<"Licenziya", "ne", "trebuetsya", "Licenziya">>)
    /\ permit_text = Text(<<"Licenziya", "ne", "trebuetsya">>)
    /\ license_need = "True"
    /\ consulted = <<<<"license_text", "required">>>>

\* C26: a source that is no string or is empty is skipped, a non-empty
\* source that matches no pattern of either set makes the classifier go on
\* to the next source, and the decision is Unknown exactly when every
\* source is absent or matches no pattern of either set.
C26_UnknownIffNoMatch ==
    class_pc = "classified" =>
        /\ license_need = "None" <=> (~Decides(license_text) /\ ~Decides(permit_text))
        /\ "license_text" \in SourcesConsulted => Usable(license_text)
        /\ "permit_text" \in SourcesConsulted => Usable(permit_text)
        /\ (~Decides(license_text) /\ Usable(permit_text)) =>
               <<"permit_text", "required">> \in Range(consulted)

\* license_text matches nothing, permit_text says no licence is needed:
\* both sources were tested and the decision is NotRequired
C26_Witness ==
    /\ class_pc = "classified"
    /\ license_text = Text(<<"ne", "trebuetsya">>)
    /\ permit_text = Text(<<"Licenziya", "ne", "trebuetsya">>)
    /\ license_need = "False"
    /\ Len(consulted) = 4

----------------------------------------------------------------------------
(* SpecPatternOrder: the classification of one row whose two texts have at *)
(* most MaxOrderWords words, for the comparison of the decision under      *)
(* every order of the two pattern lists.                                   *)

MaxOrderWords == 3   \* longest text, in words, of SpecPatternOrder

ShortTextValues ==
    {NoText} \cup {Text(ws) : ws \in SeqsUpTo(Words, MaxOrderWords)}

InitPatternOrder ==
    /\ StoreIdle
    /\ ResolveIdle
    /\ RetryIdle
    /\ RunIdle
    /\ ExecIdle
    /\ FileIdle
    /\ UnitIdle
    /\ save_pc = "off"
    /\ permit_text \in ShortTextValues
    /\ license_text \in ShortTextValues
    /\ license_need = "None"
    /\ consulted = <<>>
    /\ class_pc = "row"

NextPatternOrder ==
    \/ Classify

SpecPatternOrder == InitPatternOrder /\ [][NextPatternOrder]_vars

\* the orders of a list
Orders(list) ==
    {[k \in 1..Len(list) |-> list[p[k]]] :
        p \in {q \in [1..Len(list) -> 1..Len(list)] : Range(q) = 1..Len(list)}}

\* the orders in which the two pattern lists can be written
RequiredOrders == Orders(LICENSE_REQUIRED_PATTERNS)

NotRequiredOrders == Orders(LICENSE_NOT_REQUIRED_PATTERNS)

\* C27: the decision is the same in whatever order the patterns of the
\* Required set and of the NotRequired set are listed.
C27_PatternOrderFree ==
    class_pc = "classified" =>
        \A required \in RequiredOrders, not_required \in NotRequiredOrders :
            determine_license_need_with(permit_text, license_text, required,
                                        not_required).decision = license_need

\* a decision that rests on the second Required pattern of the list
C27_Witness ==
    /\ class_pc = "classified"
    /\ license_text = NoText
    /\ permit_text = Text(<<"ne", "trebuetsya", "Licenziya">>)
    /\ license_need = "True"
    /\ ~re_search(LICENSE_REQUIRED_PATTERNS[1], text_lower(permit_text))
    /\ re_search(LICENSE_REQUIRED_PATTERNS[2], text_lower(permit_text))
----------------------------------------------------------------------------
(* SpecTerminate: a Step 2 run without process death, at the three levels *)
(* at which it loops: the extraction of one file (the retry loop of       *)
(* submit_file and the polling loop of wait_for_result), the run loop over *)
(* the units with the gather of each unit's tasks, and the runner from the *)
(* start of run() to the write of the dataset.  A behaviour is at one      *)
(* level; the other levels stay idle.  Every external call returns or      *)
(* raises and the one thread of the process keeps running: weak fairness   *)
(* on the next-state action.                                               *)

InitTerminate ==
    \/ InitFile
    \/ InitExec
    \/ InitRun /\ step = 2

\* run() is called for Step 2
BeginRun == step = 2 /\ StartRun

\* the document mapping of Step 2 is refreshed between two runs
RefreshBetweenRuns == step = 2 /\ RefreshDocuments

NextTerminate ==
    \/ DownloadReturns
    \/ DownloadRaises
    \/ CallReturns
    \/ CallRaisesRetryable
    \/ CallRaisesOther
    \/ Sleep
    \/ SubmitReturned
    \/ SubmitRaised
    \/ PollTimeout
    \/ PollPending
    \/ PollCompleted
    \/ PollFailed
    \/ PollRaises
    \/ StartUnit
    \/ Acquire
    \/ Wait
    \/ WaitRaises
    \/ Complete
    \/ GatherReturns
    \/ GatherRaises
    \/ ExecFinish
    \/ BeginRun
    \/ RefreshBetweenRuns
    \/ Cleanup
    \/ SkipUnit
    \/ UnitSucceeds
    \/ UnitFails
    \/ CheckpointSave
    \/ CheckpointFlush
    \/ FinalSave
    \/ FinalFlush
    \/ Collect
    \/ WriteOutput
    \/ Finish

SpecTerminate ==
    InitTerminate /\ [][NextTerminate]_vars /\ WF_vars(NextTerminate)

\* C40: when every external call returns or raises, a Step 2 run ends: the
\* extraction of a file returns, after at most N invocations of submit_file
\* and with no poll once the elapsed time exceeds T or the service has
\* reported COMPLETED, FAILED or ERROR; the loop over the units ends; and a
\* run that was started reaches the final save of the checkpoint and the
\* write of the merged dataset.
C40_RunTerminates ==
    /\ (file_pc = "download") ~> (file_pc = "returned")
    /\ [](calls <= max_attempts)
    /\ [][(file_pc = "poll" /\ elapsed > ocr_timeout)
              => (file_pc' = "returned" /\ polls' = polls)]_vars
    /\ [][file_pc = "returned" => polls' = polls]_vars
    /\ (exec_pc = "next") ~> (exec_pc = "finished")
    /\ (pc \notin {"idle", "done"})
           ~> (pc = "done" /\ exists(state_file) /\ exists(output_file)
                           /\ load(state_file) = state)

\* a file whose submit was retried twice and whose result was polled until
\* the time was up
C40_Witness ==
    /\ file_pc = "returned"
    /\ calls = SubmitAttempts
    /\ waits = <<SubmitDelay, SubmitDelay * SubmitBackoff>>
    /\ ocr_timeout = MaxTimeout
    /\ elapsed > ocr_timeout
    /\ file_error = <<"timeout", "fetch">>
====
